---- MODULE Spec2Model ----
(***************************************************************************)
(* A model of gemplex, a Gemini search engine: the ping-pong indexer and   *)
(* the live index alias, the crawler's workers (seeder, coordinator,       *)
(* visitors, flusher, cleaner), and the robots.txt handling of the seeder. *)
(*                                                                         *)
(* The module holds several specifications over one set of variables; a    *)
(* specification leaves the variables of the other subsystems unchanged.   *)
(*   SpecIndex        the index daemon, the search daemon, the index alias *)
(*   SpecRobotsParse  fetchRobotsRules reading the lines of a robots.txt   *)
(*   SpecRobots       the seeder's robots handling against the store and   *)
(*                    the clock, with the flusher                          *)
(*   SpecCrawl        the whole crawler through shutdown, with queues of   *)
(*                    capacity 1                                           *)
(*   SpecVisits       urls with a stored visit history through the         *)
(*                    pipeline, every kind of visit result flushed         *)
(*   SpecFetch        one url through the pipeline, the visitor's          *)
(*                    readGemini following a chain of redirects            *)
(*   SpecPace         the visitors against the clock: the sleep after a    *)
(*                    url, and the hosts the visitors are in contact with  *)
(*   SpecIndexPages   one run of gsearch.IndexPages over a store          *)
(*   SpecConn         the search daemon's handleConn, connection after     *)
(*                    connection                                           *)
(***************************************************************************)
EXTENDS Integers, Sequences, FiniteSets, TLC

VARIABLES
    \* ---- index daemon / search daemon (cmd/gemplex index.go, search.go)
    slotState,      \* on-disk state of ping.idx and pong.idx
    slotCount,      \* document count of each slot
    dbDocs,         \* number of indexable documents in the store
    idx,            \* the index alias: the set of indices added to it
    curIdx,         \* the index daemon's current index ("nil" before load)
    loadIndexOnce,  \* sync.Once: "idle", "running" (and who runs it), "done"
    loader,         \* the daemon running loadInitialIndex
    ixPc,           \* position of index()
    ixCancelled,    \* index()'s ctx has been cancelled
    newIdx,         \* the slot indexDb is building ("nil" when none)
    buildFailed,    \* IndexPages stopped on a store or batch error
    srPc,           \* position of search()
    signalled,      \* main received SIGINT/SIGTERM and started the done sends
    panicked,       \* a utils.PanicOnErr or panic() fired
    aliasPopulated, \* history: idx.Add has been called
    answeredFrom,   \* history: the indices the last query was answered from
    nQueries,       \* history: queries answered so far (bounded)
    \* ---- fetchRobotsRules (crawler): the parse of one robots.txt body
    rbLines,        \* strings.Split(text, "\n"): the lines still to read
    rbRead,         \* history: the lines read so far
    curUserAgents,  \* the user-agent set in force
    readingUserAgents,
    rbPrefixes,     \* prefixes recorded so far
    \* ---- the relational store and the clock
    now,            \* time.Now() and the store's now(), in seconds
    nTicks,         \* clock steps taken (bounded)
    urlRow,         \* urls table: one row per url
    hostRow,        \* hosts table: one row per hostname
    linkRow,        \* links table: the (src url, dst url) pairs, its primary
                    \* key
    \* ---- crawler workers (crawl, seeder, coordinator, visitor, flusher,
    \*      cleaner)
    cfg,            \* the run's configuration: channel capacities and the
                    \* answers robots.txt fetches and DNS lookups of host
                    \* h1 can get; never changes
    crawlPc,        \* position of crawl()
    crawlIdx,       \* crawl(): index of the closing and draining loops
    drained,        \* crawl(): urls, the drained queues
    seederPc,       \* position of seeder()
    sdPending,      \* rows of getDueUrls' query not handed to the seeder yet
    sdCur,          \* the url the seeder is sending
    seedCancelled,  \* the seeder's ctx has been cancelled
    robotsCache,    \* seeder: robotsCache
    urlChan,        \* seeder -> coordinator channel
    coordPc,        \* position of coordinator()
    seen,           \* coordinator: seen
    host2ip,        \* coordinator: host2ip
    inputUrls,      \* the visitors' input channels
    chClosed,       \* which input channels crawl() has closed
    vPc,            \* position of each visitor()
    vCur,           \* the url (then the result) a visitor is working on
    vCancelled,     \* which visitors' ctx has been cancelled
    visitResults,   \* the results channel
    flusherPc,      \* position of flusher()
    cleanerPc,      \* position of cleaner()
    \* ---- history variables
    sdLast,         \* what the seeder did with the last url it handled
    hostFetch,      \* per host: the last robots fetch and the run of failures
    fed,            \* per url: times the coordinator received it (capped)
    dispatched,     \* per url: times it was put on a visitor queue
    droppedFull,    \* urls the coordinator dropped on a full queue
    crashed,        \* the crawler process died on a panic
    flCur,          \* flusher: the result r it is writing to the store
    \* ---- readGemini (one fetch of a visitor)
    rgChain,        \* the answers the servers give, request after request
    rgPos,          \* number of answers consumed so far
    redirs,         \* readGemini: redirs
    rgOut,          \* what readGemini returned ("none" while it runs)
    \* ---- the visitors against the clock
    vWake,          \* visitor: the time its time.Sleep returns
    contact,        \* readGemini of a visitor: the host of u, the url it
                    \* requests ("none" outside readGemini)
    lastFetch,      \* history: per host, when a fetch of one of its urls
                    \* last returned
    \* ---- gsearch.IndexPages (one run, on the store's urls, hosts and links)
    ipRank,         \* the ranks of the store: which urls and which hosts have
                    \* a non-null rank
    ipPc,           \* position of IndexPages
    ipRows,         \* rows of the query not read yet
    ipBatch,        \* the batch: documents added and not yet written
    ipDocs,         \* the documents of the index, by their key
    \* ---- handleConn (search daemon): one connection after the other
    connPc,         \* "none", "accepted", "closed"
    connReq,        \* the request line the client sent
    connOut,        \* what has been written to the connection
    nConns,         \* connections accepted so far (bounded)
    listener,       \* search(): "open"; "closing" once closing = true;
                    \* "closed" once listener.Close() has run
    procExited,     \* main has returned: the process is gone
    connEarly,      \* history: the connection was accepted before the signal
    \* ---- the rank command: pagerank and getHostRanks on one set of links
    prLinks,        \* main: links, the rows of the links table
    prPc,           \* position of main: "start", "done"
    urlRanks,       \* main: urlRanks as pagerank returned them
    hostRanks,      \* main: hostRanks as getHostRanks returned them
    \* ---- gparse.ParseGemtext on one page
    gtLines,        \* ParseGemtext: lines
    gtRead,         \* lines the loop has handled
    inPre,          \* ParseGemtext: inPre
    firstLine,      \* ParseGemtext: firstLine
    result,         \* ParseGemtext: result (Headings, Links, Title)
    gtDone,         \* ParseGemtext has returned
    \* ---- the url column of the urls table, as strings
    urlsTable,      \* the url strings of the rows of urls
    \* ---- cleaner and the flusher's success transaction on contents
    contentsRows,   \* committed rows of contents (their ids)
    urlContentId,   \* committed urls.content_id of each url ("null" if none)
    txPc,           \* updateDbSuccessfulVisit: "idle", "upserted", "updated"
    txUrl,          \* updateDbSuccessfulVisit: r.url
    txContentId,    \* updateDbSuccessfulVisit: contentId
    clPc,           \* cleaner: "exec" (statement running), "sleep", "panicked"
    clSnapshot,     \* rows the running delete statement selected, not handled yet
    clDeleted       \* rows the running delete statement has deleted

ixVars == <<slotState, slotCount, dbDocs, idx, curIdx, loadIndexOnce, loader,
            ixPc, ixCancelled, newIdx, buildFailed, srPc, signalled,
            panicked, aliasPopulated, answeredFrom, nQueries>>

rbVars == <<rbLines, rbRead, curUserAgents, readingUserAgents, rbPrefixes>>

dbVars == <<now, nTicks, urlRow, hostRow, linkRow>>

mainVars == <<crawlPc, crawlIdx, drained>>

seederVars == <<seederPc, sdPending, sdCur, seedCancelled, robotsCache, sdLast,
                hostFetch>>

coordVars == <<coordPc, seen, host2ip, fed, dispatched, droppedFull>>

visitorVars == <<chClosed, vPc, vCur, vCancelled>>

chanVars == <<urlChan, inputUrls, visitResults>>

flusherVars == <<flusherPc, flCur>>

crVars == <<dbVars, cfg, mainVars, seederVars, coordVars, visitorVars,
            chanVars, flusherVars, cleanerPc, crashed>>

rgVars == <<rgChain, rgPos, redirs, rgOut>>

paceVars == <<vWake, contact, lastFetch>>

ipVars == <<ipRank, ipPc, ipRows, ipBatch, ipDocs>>

cnVars == <<connPc, connReq, connOut, nConns, listener, procExited, connEarly>>

prVars == <<prLinks, prPc, urlRanks, hostRanks>>

\* The state of the library functions that are checked on drawn inputs.
gtVars == <<gtLines, gtRead, inPre, firstLine, result, gtDone>>

usVars == <<urlsTable>>

clVars == <<contentsRows, urlContentId, txPc, txUrl, txContentId, clPc,
            clSnapshot, clDeleted>>

libVars == <<prVars, gtVars, usVars, clVars>>

vars == <<ixVars, rbVars, rgVars, paceVars, ipVars, cnVars, libVars, crVars>>

(***************************************************************************)
(* Bounds.                                                                 *)
(***************************************************************************)
MaxDocs == 2
BatchSize == 1
MaxQueries == 2
MaxLines == 4
MaxTicks == 3
MaxFed == 2
MaxChain == 7
MaxConns == 2
MaxNodes == 3
MaxLinks == 3
MaxGemLines == 3
MaxUrlRows == 2

(***************************************************************************)
(* The state of a subsystem that a specification does not run.             *)
(***************************************************************************)
IdleIndex ==
    /\ slotState = [s \in {"ping", "pong"} |-> "absent"]
    /\ slotCount = [s \in {"ping", "pong"} |-> 0]
    /\ dbDocs = 0
    /\ idx = {}
    /\ curIdx = "nil"
    /\ loadIndexOnce = "idle"
    /\ loader = "nil"
    /\ ixPc = "start"
    /\ ixCancelled = FALSE
    /\ newIdx = "nil"
    /\ buildFailed = FALSE
    /\ srPc = "start"
    /\ signalled = FALSE
    /\ panicked = FALSE
    /\ aliasPopulated = FALSE
    /\ answeredFrom = {}
    /\ nQueries = 0

\* sql NULL for a time or an interval, and time.Time's zero value.
NULL == -1
ZeroTime == 0

Urls == {"u1", "u2", "u3", "ub"}
Hosts == {"h1", "h2", "hb"}
Visitors == {0, 1}

NoRow == [exists |-> FALSE, banned |-> FALSE, lastVisited |-> NULL,
          retryTime |-> NULL, contentId |-> "none"]

NoHost == [exists |-> FALSE, prefixesValid |-> FALSE, prefixes |-> <<>>,
           validUntil |-> NULL, lastVisited |-> NULL, retryTime |-> NULL,
           slowdownUntil |-> NULL]

NoResult == [url |-> "none", statusCode |-> 0, error |-> FALSE,
             banned |-> FALSE, meta |-> NULL, contents |-> "none",
             links |-> {}]

NoCache == [ok |-> FALSE, prefixes |-> <<>>, validUntil |-> ZeroTime]

NoLast == [url |-> "none", decision |-> "none", source |-> "none", at |-> 0,
           validUntil |-> NULL, due |-> TRUE]

NoFetch ==
    [kind |-> "none", prefixes |-> <<>>, fails |-> 0, perm |-> FALSE,
     at |-> 0, meta |-> NULL]

IdleCrawl ==
    /\ now = 1
    /\ nTicks = 0
    /\ linkRow = {}
    /\ urlRow = [u \in Urls |-> NoRow]
    /\ hostRow = [h \in Hosts |-> NoHost]
    /\ cfg = [dns |-> {"ip1"},
              urlChanCap |-> 0, shardCap |-> 0, resultsCap |-> 0,
              robots |-> {}, visits |-> {}]
    /\ crawlPc = "run"
    /\ crawlIdx = 0
    /\ drained = [i \in Visitors |-> <<>>]
    /\ seederPc = "query"
    /\ sdPending = {}
    /\ sdCur = "none"
    /\ seedCancelled = FALSE
    /\ robotsCache = [h \in Hosts |-> NoCache]
    /\ urlChan = <<>>
    /\ coordPc = "run"
    /\ seen = [u \in Urls |-> FALSE]
    /\ host2ip = [h \in Hosts |-> "unknown"]
    /\ inputUrls = [i \in Visitors |-> <<>>]
    /\ chClosed = [i \in Visitors |-> FALSE]
    /\ vPc = [i \in Visitors |-> "idle"]
    /\ vCur = [i \in Visitors |-> "none"]
    /\ vCancelled = [i \in Visitors |-> FALSE]
    /\ visitResults = <<>>
    /\ flusherPc = "run"
    /\ flCur = NoResult
    /\ cleanerPc = "exec"
    /\ sdLast = NoLast
    /\ hostFetch = [h \in Hosts |-> NoFetch]
    /\ fed = [u \in Urls |-> 0]
    /\ dispatched = [u \in Urls |-> 0]
    /\ droppedFull = {}
    /\ crashed = FALSE

IdleFetch ==
    /\ rgChain = <<>>
    /\ rgPos = 0
    /\ redirs = 0
    /\ rgOut = "none"

\* No request line.
NoRequest ==
    [line |-> FALSE, json |-> FALSE, fields |-> "ok", t |-> "absent",
     q |-> "absent", pageGiven |-> FALSE, page |-> 1]

IdlePace ==
    /\ vWake = [i \in Visitors |-> 0]
    /\ contact = [i \in Visitors |-> "none"]
    /\ lastFetch = [h \in Hosts |-> NULL]

IdleIndexPages ==
    /\ ipRank = [url |-> {}, host |-> {}]
    /\ ipPc = "start"
    /\ ipRows = {}
    /\ ipBatch = {}
    /\ ipDocs = {}

IdleConn ==
    /\ connPc = "none"
    /\ connReq = NoRequest
    /\ connOut = <<>>
    /\ nConns = 0
    /\ listener = "open"
    /\ procExited = FALSE
    /\ connEarly = FALSE

IdleRank ==
    /\ prLinks = <<>>
    /\ prPc = "start"
    /\ urlRanks = <<>>
    /\ hostRanks = <<>>

IdleGemtext ==
    /\ gtLines = <<>>
    /\ gtRead = 0
    /\ inPre = FALSE
    /\ firstLine = <<>>
    /\ result = [Headings |-> <<>>, Links |-> <<>>, Title |-> <<>>]
    /\ gtDone = FALSE

IdleUrlStrings ==
    /\ urlsTable = {}

IdleClean ==
    /\ contentsRows = {}
    /\ urlContentId = <<>>
    /\ txPc = "idle"
    /\ txUrl = ""
    /\ txContentId = ""
    /\ clPc = "sleep"
    /\ clSnapshot = {}
    /\ clDeleted = {}

IdleLib ==
    /\ IdleRank
    /\ IdleGemtext
    /\ IdleUrlStrings
    /\ IdleClean

IdleRobotsParse ==
    /\ rbLines = <<>>
    /\ rbRead = <<>>
    /\ curUserAgents = << <<"*">> >>
    /\ readingUserAgents = TRUE
    /\ rbPrefixes = <<>>

Slots == {"ping", "pong"}
SlotStates == {"absent", "broken", "noread", "ok"}

Min(a, b) == IF a < b THEN a ELSE b
Max(a, b) == IF a > b THEN a ELSE b

(***************************************************************************)
(* The index alias (bleve.IndexAlias).  Add and Swap each run under the    *)
(* alias's mutex, so each is one step.                                     *)
(***************************************************************************)
AliasAdd(a, in) == a \cup in

AliasSwapKeepsOld(a, in, out) == a \cup in

AliasSwap(a, in, out) == (a \ out) \cup in

SameSlot(name) == name

OtherSlot(name) == IF name = "ping" THEN "pong" ELSE "ping"

SlotExists(s) == slotState[s] # "absent"
SlotOpens(s) == slotState[s] \in {"noread", "ok"}
SlotCounts(s) == slotState[s] = "ok"

InitialChoiceFewerDocs ==
    IF SlotExists("ping") /\ SlotExists("pong") THEN
        IF SlotOpens("ping") /\ ~SlotOpens("pong") THEN "ping"
        ELSE IF SlotOpens("pong") /\ ~SlotOpens("ping") THEN "pong"
        ELSE IF ~SlotOpens("ping") /\ ~SlotOpens("pong") THEN "panic"
        ELSE IF SlotCounts("ping") /\ ~SlotCounts("pong") THEN "ping"
        ELSE IF SlotCounts("pong") /\ ~SlotCounts("ping") THEN "pong"
        ELSE IF ~SlotCounts("ping") /\ ~SlotCounts("pong") THEN "panic"
        ELSE IF slotCount["ping"] < slotCount["pong"] THEN "ping"
        ELSE "pong"
    ELSE IF SlotExists("ping") THEN
        IF SlotOpens("ping") THEN "ping" ELSE "panic"
    ELSE IF SlotExists("pong") THEN
        IF SlotOpens("pong") THEN "pong" ELSE "panic"
    ELSE "build"

\* loadInitialIndex, the branches that open existing slots: the slot chosen,
\* "panic" when the code panics, "build" when no slot exists.
InitialChoice ==
    IF SlotExists("ping") /\ SlotExists("pong") THEN
        IF SlotOpens("ping") /\ ~SlotOpens("pong") THEN "ping"
        ELSE IF SlotOpens("pong") /\ ~SlotOpens("ping") THEN "pong"
        ELSE IF ~SlotOpens("ping") /\ ~SlotOpens("pong") THEN "panic"
        ELSE IF SlotCounts("ping") /\ ~SlotCounts("pong") THEN "ping"
        ELSE IF SlotCounts("pong") /\ ~SlotCounts("ping") THEN "pong"
        ELSE IF ~SlotCounts("ping") /\ ~SlotCounts("pong") THEN "panic"
        ELSE IF slotCount["ping"] > slotCount["pong"] THEN "ping"
        ELSE "pong"
    ELSE IF SlotExists("ping") THEN
        IF SlotOpens("ping") THEN "ping" ELSE "panic"
    ELSE IF SlotExists("pong") THEN
        IF SlotOpens("pong") THEN "pong" ELSE "panic"
    ELSE "build"

ixHist == <<answeredFrom, nQueries>>

\* loadIndexOnce.Do(loadInitialIndex) by daemon p, first caller.
LoadInitialIndex(p) ==
    /\ ~panicked
    /\ loadIndexOnce = "idle"
    /\ IF p = "index" THEN ixPc = "start" ELSE srPc = "start"
    /\ loader' = p
    /\ LET c == InitialChoice IN
         CASE c = "panic" ->
                /\ panicked' = TRUE
                /\ UNCHANGED <<slotState, slotCount, idx, curIdx, loadIndexOnce,
                               ixPc, srPc, aliasPopulated>>
           [] c = "build" ->
                /\ curIdx' = "ping"
                /\ slotState' = [slotState EXCEPT !["ping"] = "ok"]
                /\ slotCount' = [slotCount EXCEPT !["ping"] = 0]
                /\ loadIndexOnce' = "running"
                /\ UNCHANGED <<idx, ixPc, srPc, aliasPopulated, panicked>>
           [] OTHER ->
                /\ curIdx' = c
                /\ idx' = AliasAdd(idx, {c})
                /\ aliasPopulated' = TRUE
                /\ loadIndexOnce' = "done"
                /\ UNCHANGED <<slotState, slotCount, ixPc, srPc, panicked>>
    /\ UNCHANGED <<dbDocs, ixCancelled, newIdx, buildFailed, signalled, ixHist>>

\* gsearch.IndexDb on the fresh ping index during the initial load: one batch.
LoadBuildBatch ==
    /\ ~panicked
    /\ loadIndexOnce = "running"
    /\ ~buildFailed
    /\ slotCount["ping"] < dbDocs
    /\ slotCount' = [slotCount EXCEPT
                       !["ping"] = Min(dbDocs, slotCount["ping"] + BatchSize)]
    /\ UNCHANGED <<slotState, dbDocs, idx, curIdx, loadIndexOnce, loader, ixPc,
                   ixCancelled, newIdx, buildFailed, srPc, signalled, panicked,
                   aliasPopulated, ixHist>>

\* IndexPages returns early on a store or batch error; IndexDb drops the error.
LoadBuildFail ==
    /\ ~panicked
    /\ loadIndexOnce = "running"
    /\ ~buildFailed
    /\ slotCount["ping"] < dbDocs
    /\ buildFailed' = TRUE
    /\ UNCHANGED <<slotState, slotCount, dbDocs, idx, curIdx, loadIndexOnce,
                   loader, ixPc, ixCancelled, newIdx, srPc, signalled, panicked,
                   aliasPopulated, ixHist>>

\* The initial build ends: idx.Add(curIdx).
LoadBuildDone ==
    /\ ~panicked
    /\ loadIndexOnce = "running"
    /\ buildFailed \/ slotCount["ping"] = dbDocs
    /\ idx' = AliasAdd(idx, {curIdx})
    /\ aliasPopulated' = TRUE
    /\ loadIndexOnce' = "done"
    /\ buildFailed' = FALSE
    /\ UNCHANGED <<slotState, slotCount, dbDocs, curIdx, loader, ixPc,
                   ixCancelled, newIdx, srPc, signalled, panicked, ixHist>>

\* The initial build is cancelled (the loader's context is cancelled while
\* IndexDb runs): loadInitialIndex returns without adding to the alias.  Only
\* the search daemon's call can see a cancelled context: index() starts the
\* goroutine that cancels its context after loadIndexOnce.Do has returned.
LoadBuildCancelled ==
    /\ ~panicked
    /\ loadIndexOnce = "running"
    /\ loader = "search"
    /\ signalled
    /\ loadIndexOnce' = "done"
    /\ buildFailed' = FALSE
    /\ UNCHANGED <<slotState, slotCount, dbDocs, idx, curIdx, loader, ixPc,
                   ixCancelled, newIdx, srPc, signalled, panicked,
                   aliasPopulated, ixHist>>

\* index(): loadIndexOnce.Do has returned; the goroutine waiting for done is
\* started and the loop is entered.
IndexLoaded ==
    /\ ~panicked
    /\ ixPc = "start"
    /\ loadIndexOnce = "done"
    /\ ixPc' = "indexDb"
    /\ UNCHANGED <<slotState, slotCount, dbDocs, idx, curIdx, loadIndexOnce,
                   loader, ixCancelled, newIdx, buildFailed, srPc, signalled,
                   panicked, aliasPopulated, ixHist>>

\* index()'s goroutine: <-done; cancelFunc(); loopDone <- true.
IndexDoneReceived ==
    /\ ~panicked
    /\ signalled
    /\ ixPc \notin {"start", "exited"}
    /\ ~ixCancelled
    /\ ixCancelled' = TRUE
    /\ UNCHANGED <<slotState, slotCount, dbDocs, idx, curIdx, loadIndexOnce,
                   loader, ixPc, newIdx, buildFailed, srPc, signalled, panicked,
                   aliasPopulated, ixHist>>

\* indexDb: choose the slot curIdx does not name and os.RemoveAll it.
IndexDbRemove ==
    /\ ~panicked
    /\ ixPc = "indexDb"
    /\ newIdx' = OtherSlot(curIdx)
    /\ slotState' = [slotState EXCEPT ![OtherSlot(curIdx)] = "absent"]
    /\ slotCount' = [slotCount EXCEPT ![OtherSlot(curIdx)] = 0]
    /\ ixPc' = "create"
    /\ UNCHANGED <<dbDocs, idx, curIdx, loadIndexOnce, loader, ixCancelled,
                   buildFailed, srPc, signalled, panicked, aliasPopulated,
                   ixHist>>

\* indexDb: gsearch.NewIndex(newIdxFile, newIdxName).
IndexDbCreate ==
    /\ ~panicked
    /\ ixPc = "create"
    /\ slotState' = [slotState EXCEPT ![newIdx] = "ok"]
    /\ ixPc' = "build"
    /\ UNCHANGED <<slotCount, dbDocs, idx, curIdx, loadIndexOnce, loader,
                   ixCancelled, newIdx, buildFailed, srPc, signalled, panicked,
                   aliasPopulated, ixHist>>

\* gsearch.IndexDb: one batch written to the new index.
IndexDbBatch ==
    /\ ~panicked
    /\ ixPc = "build"
    /\ ~ixCancelled
    /\ ~buildFailed
    /\ slotCount[newIdx] < dbDocs
    /\ slotCount' = [slotCount EXCEPT
                       ![newIdx] = Min(dbDocs, slotCount[newIdx] + BatchSize)]
    /\ UNCHANGED <<slotState, dbDocs, idx, curIdx, loadIndexOnce, loader, ixPc,
                   ixCancelled, newIdx, buildFailed, srPc, signalled, panicked,
                   aliasPopulated, ixHist>>

\* IndexPages returns early on a store or batch error; IndexDb drops the error.
IndexDbFail ==
    /\ ~panicked
    /\ ixPc = "build"
    /\ ~ixCancelled
    /\ ~buildFailed
    /\ slotCount[newIdx] < dbDocs
    /\ buildFailed' = TRUE
    /\ UNCHANGED <<slotState, slotCount, dbDocs, idx, curIdx, loadIndexOnce,
                   loader, ixPc, ixCancelled, newIdx, srPc, signalled, panicked,
                   aliasPopulated, ixHist>>

\* indexDb: ctx.Err() == context.Canceled after IndexDb: return, no swap.
IndexDbCancelled ==
    /\ ~panicked
    /\ ixPc = "build"
    /\ ixCancelled
    /\ ixPc' = "sleep"
    /\ newIdx' = "nil"
    /\ buildFailed' = FALSE
    /\ UNCHANGED <<slotState, slotCount, dbDocs, idx, curIdx, loadIndexOnce,
                   loader, ixCancelled, srPc, signalled, panicked,
                   aliasPopulated, ixHist>>

\* indexDb: idx.Swap([newIdx], [curIdx]); curIdx = newIdx.
IndexDbSwap ==
    /\ ~panicked
    /\ ixPc = "build"
    /\ ~ixCancelled
    /\ buildFailed \/ slotCount[newIdx] = dbDocs
    /\ idx' = AliasSwap(idx, {newIdx}, {curIdx})
    /\ curIdx' = newIdx
    /\ newIdx' = "nil"
    /\ buildFailed' = FALSE
    /\ ixPc' = "sleep"
    /\ UNCHANGED <<slotState, slotCount, dbDocs, loadIndexOnce, loader,
                   ixCancelled, srPc, signalled, panicked, aliasPopulated,
                   ixHist>>

\* index(): time.After(1 hour) fires; the store may have changed meanwhile.
IndexSleepOver ==
    /\ ~panicked
    /\ ixPc = "sleep"
    /\ ixPc' = "indexDb"
    /\ \E n \in 0..MaxDocs : dbDocs' = n
    /\ UNCHANGED <<slotState, slotCount, idx, curIdx, loadIndexOnce, loader,
                   ixCancelled, newIdx, buildFailed, srPc, signalled, panicked,
                   aliasPopulated, ixHist>>

\* index(): loopDone received: break loop.
IndexExit ==
    /\ ~panicked
    /\ ixPc = "sleep"
    /\ ixCancelled
    /\ ixPc' = "exited"
    /\ UNCHANGED <<slotState, slotCount, dbDocs, idx, curIdx, loadIndexOnce,
                   loader, ixCancelled, newIdx, buildFailed, srPc, signalled,
                   panicked, aliasPopulated, ixHist>>

\* search(): loadIndexOnce.Do has returned; the listener is opened.
SearchListen ==
    /\ ~panicked
    /\ srPc = "start"
    /\ loadIndexOnce = "done"
    /\ srPc' = "listening"
    /\ UNCHANGED <<slotState, slotCount, dbDocs, idx, curIdx, loadIndexOnce,
                   loader, ixPc, ixCancelled, newIdx, buildFailed, signalled,
                   panicked, aliasPopulated, ixHist>>

\* handleConn -> gsearch.Search(req, idx): the query runs against the alias
\* under the alias's read lock.
SearchQuery ==
    /\ ~panicked
    /\ srPc = "listening"
    /\ nQueries < MaxQueries
    /\ answeredFrom' = idx
    /\ nQueries' = nQueries + 1
    /\ UNCHANGED <<slotState, slotCount, dbDocs, idx, curIdx, loadIndexOnce,
                   loader, ixPc, ixCancelled, newIdx, buildFailed, srPc,
                   signalled, panicked, aliasPopulated>>

\* search(): done received, the listener is closed, Accept returns.
SearchExit ==
    /\ ~panicked
    /\ srPc = "listening"
    /\ signalled
    /\ srPc' = "exited"
    /\ UNCHANGED <<slotState, slotCount, dbDocs, idx, curIdx, loadIndexOnce,
                   loader, ixPc, ixCancelled, newIdx, buildFailed, signalled,
                   panicked, aliasPopulated, ixHist>>

\* main: <-sigs, then one goroutine per daemon sends on its done channel.
Signal ==
    /\ ~panicked
    /\ ~signalled
    /\ signalled' = TRUE
    /\ UNCHANGED <<slotState, slotCount, dbDocs, idx, curIdx, loadIndexOnce,
                   loader, ixPc, ixCancelled, newIdx, buildFailed, srPc,
                   panicked, aliasPopulated, ixHist>>

InitIndex ==
    /\ slotState \in [Slots -> SlotStates]
    /\ slotCount \in [Slots -> 0..MaxDocs]
    /\ \A s \in Slots : slotState[s] \in {"absent", "broken"} => slotCount[s] = 0
    /\ dbDocs \in 0..MaxDocs
    /\ idx = {}
    /\ curIdx = "nil"
    /\ loadIndexOnce = "idle"
    /\ loader = "nil"
    /\ ixPc = "start"
    /\ ixCancelled = FALSE
    /\ newIdx = "nil"
    /\ buildFailed = FALSE
    /\ srPc = "start"
    /\ signalled = FALSE
    /\ panicked = FALSE
    /\ aliasPopulated = FALSE
    /\ answeredFrom = {}
    /\ nQueries = 0
    /\ IdleRobotsParse
    /\ IdleFetch
    /\ IdlePace
    /\ IdleIndexPages
    /\ IdleConn
    /\ IdleLib
    /\ IdleCrawl

NextIndex ==
  /\ UNCHANGED <<libVars, rbVars, rgVars, paceVars, ipVars, cnVars, crVars>>
  /\
    \/ \E p \in {"index", "search"} : LoadInitialIndex(p)
    \/ LoadBuildBatch
    \/ LoadBuildFail
    \/ LoadBuildDone
    \/ LoadBuildCancelled
    \/ IndexLoaded
    \/ IndexDoneReceived
    \/ IndexDbRemove
    \/ IndexDbCreate
    \/ IndexDbBatch
    \/ IndexDbFail
    \/ IndexDbCancelled
    \/ IndexDbSwap
    \/ IndexSleepOver
    \/ IndexExit
    \/ SearchListen
    \/ SearchQuery
    \/ SearchExit
    \/ Signal

SpecIndex == InitIndex /\ [][NextIndex]_vars

(***************************************************************************)
(* C1: once startup has populated the alias, the alias holds exactly one   *)
(* index (ping or pong) in every state, under every interleaving of        *)
(* queries with the rebuild-and-swap cycle, and every query is answered    *)
(* from exactly one index.                                                 *)
(***************************************************************************)
C1_AliasAlwaysOneIndex ==
    aliasPopulated =>
        /\ Cardinality(idx) = 1
        /\ idx \subseteq Slots
        /\ (nQueries > 0 => Cardinality(answeredFrom) = 1)

\* A query has been answered after at least one completed swap.
C1_Witness ==
    /\ aliasPopulated
    /\ nQueries > 0
    /\ ixPc = "sleep"
    /\ curIdx = "pong"
    /\ answeredFrom = {"pong"}
    /\ slotState["ping"] = "ok"

(***************************************************************************)
(* Strings.  A string is a sequence of characters; a character is a        *)
(* one-symbol value.  A robots.txt line is held as its first token (the    *)
(* directive name with its colon, "#" for a comment, "" otherwise) and the *)
(* rest of the line.                                                       *)
(***************************************************************************)
IsSpace(c) == c \in {" ", "\t", "\r"}

RECURSIVE TrimLeft(_)
TrimLeft(s) ==
    IF s # <<>> /\ IsSpace(Head(s)) THEN TrimLeft(Tail(s)) ELSE s

RECURSIVE TrimRight(_)
TrimRight(s) ==
    IF s # <<>> /\ IsSpace(s[Len(s)])
    THEN TrimRight(SubSeq(s, 1, Len(s) - 1)) ELSE s

\* strings.TrimSpace
TrimSpace(s) == TrimRight(TrimLeft(s))

\* strings.HasPrefix
HasPrefix(s, prefix) ==
    /\ Len(prefix) <= Len(s)
    /\ SubSeq(s, 1, Len(prefix)) = prefix

\* strings.ToLower on the directive names that occur.
ToLower(tok) ==
    CASE tok \in {"User-agent:", "USER-AGENT:", "user-agent:"} -> "user-agent:"
      [] tok \in {"Disallow:", "DISALLOW:", "disallow:"} -> "disallow:"
      [] tok \in {"Allow:", "allow:"} -> "allow:"
      [] OTHER -> tok

\* len(line) > len(directive) && strings.ToLower(line[:len(directive)]) == directive
HasDirective(line, directive) ==
    /\ Len(line.rest) > 0
    /\ ToLower(line.head) = directive

\* The user-agent names fetchRobotsRules takes as its own.
crawlerUserAgent == "elektito/gemplex"

OurAgents == {<<"*">>, <<crawlerUserAgent>>, <<"crawler">>, <<"indexer">>,
              <<"researcher">>}

\* uaLoop: some user agent in force is one of ours.
AnyAgentOurs(agents) ==
    \E i \in 1..Len(agents) : agents[i] \in OurAgents

(***************************************************************************)
(* fetchRobotsRules, the loop over the lines: one line per step.           *)
(***************************************************************************)
RobotsParseLine ==
    /\ rbLines # <<>>
    /\ LET line == Head(rbLines) IN
         /\ rbLines' = Tail(rbLines)
         /\ rbRead' = Append(rbRead, line)
         /\ IF line.head = "#" THEN
                UNCHANGED <<curUserAgents, readingUserAgents, rbPrefixes>>
            ELSE IF HasDirective(line, "user-agent:") THEN
                /\ curUserAgents' =
                       Append(IF ~readingUserAgents THEN <<>> ELSE curUserAgents,
                              TrimSpace(line.rest))
                /\ readingUserAgents' = TRUE
                /\ UNCHANGED rbPrefixes
            ELSE IF HasDirective(line, "disallow:") THEN
                /\ readingUserAgents' = FALSE
                /\ rbPrefixes' =
                       IF AnyAgentOurs(curUserAgents) /\ TrimSpace(line.rest) # <<>>
                       THEN Append(rbPrefixes, TrimSpace(line.rest))
                       ELSE rbPrefixes
                /\ UNCHANGED curUserAgents
            ELSE
                UNCHANGED <<curUserAgents, readingUserAgents, rbPrefixes>>

RobotsLines ==
    [head : {"User-agent:"}, rest : {<<" ", "*">>, <<" ", "other">>}]
    \cup [head : {"Disallow:"}, rest : {<<" ", "/a">>, <<" ", "/b">>, <<" ">>}]
    \cup [head : {"disallow:"}, rest : {<<>>}]
    \cup [head : {"#", ""}, rest : {<<>>}]

RECURSIVE SeqsUpTo(_, _)
SeqsUpTo(S, n) ==
    IF n = 0 THEN {<<>>}
    ELSE LET shorter == SeqsUpTo(S, n - 1) IN
         shorter \cup {Append(q, x) : q \in shorter, x \in S}

InitRobotsParse ==
    /\ rbLines \in SeqsUpTo(RobotsLines, MaxLines)
    /\ rbRead = <<>>
    /\ curUserAgents = << <<"*">> >>
    /\ readingUserAgents = TRUE
    /\ rbPrefixes = <<>>
    /\ IdleIndex
    /\ IdleFetch
    /\ IdlePace
    /\ IdleIndexPages
    /\ IdleConn
    /\ IdleLib
    /\ IdleCrawl

NextRobotsParse ==
  /\ UNCHANGED <<libVars, ixVars, rgVars, paceVars, ipVars, cnVars, crVars>>
  /\
    \/ RobotsParseLine

SpecRobotsParse == InitRobotsParse /\ [][NextRobotsParse]_vars

(***************************************************************************)
(* C9: each contiguous run of User-agent lines defines the user-agent set  *)
(* for the rules that follow, and any other line ends the run; a non-empty *)
(* Disallow prefix is recorded if and only if the set in force at its line *)
(* names one of our agents.  So the prefixes recorded for a file are       *)
(* exactly those of the Disallow lines whose group names one of our        *)
(* agents, wherever the group stands in the file.  (Before the first       *)
(* User-agent line the set in force is taken to be "*".)                   *)
(***************************************************************************)
C9_IsUserAgentLine(line) == line.head # "#" /\ HasDirective(line, "user-agent:")

\* The first line of the run of User-agent lines that ends at line j.
RECURSIVE C9_RunStart(_, _)
C9_RunStart(lines, j) ==
    IF j > 1 /\ C9_IsUserAgentLine(lines[j - 1])
    THEN C9_RunStart(lines, j - 1) ELSE j

\* The last User-agent line before line i (0 when there is none).
RECURSIVE C9_LastAgentLine(_, _)
C9_LastAgentLine(lines, i) ==
    IF i = 1 THEN 0
    ELSE IF C9_IsUserAgentLine(lines[i - 1]) THEN i - 1
    ELSE C9_LastAgentLine(lines, i - 1)

C9_AgentsInForce(lines, i) ==
    LET j == C9_LastAgentLine(lines, i) IN
    IF j = 0 THEN {<<"*">>}
    ELSE {TrimSpace(lines[k].rest) : k \in C9_RunStart(lines, j)..j}

C9_Recorded(lines, i) ==
    /\ lines[i].head # "#"
    /\ HasDirective(lines[i], "disallow:")
    /\ TrimSpace(lines[i].rest) # <<>>
    /\ C9_AgentsInForce(lines, i) \cap OurAgents # {}

RECURSIVE C9_Expected(_, _)
C9_Expected(lines, n) ==
    IF n = 0 THEN <<>>
    ELSE IF C9_Recorded(lines, n)
         THEN Append(C9_Expected(lines, n - 1), TrimSpace(lines[n].rest))
         ELSE C9_Expected(lines, n - 1)

\* C9: each contiguous run of User-agent lines sets the agents of the rules
\* that follow, any other line ends the run, and a non-empty Disallow
\* prefix is recorded iff the agents in force name *, the crawler's id,
\* crawler, indexer or researcher: the prefixes the code has recorded are
\* those of that reading of the lines read so far.
C9_RulesScopedToTheirGroup ==
    rbPrefixes = C9_Expected(rbRead, Len(rbRead))

(***************************************************************************)
(* The store and the clock.  Times are in seconds; "1 day" and "1 month"   *)
(* are the intervals of the crawler's constants (a month compares as 30    *)
(* days).                                                                  *)
(***************************************************************************)
Day == 86400
Month == 30 * Day
tempErrorMinRetry == Day
permanentErrorRetry == Month
maxRevisitTime == Month
robotsTxtValidity == Day
revisitTimeIncrementNoChange == 2 * Day
revisitTimeAfterChange == 2 * Day

TimeSteps == {10, 3 * Day}

\* The urls of the model: gemini://h1/p/x, gemini://h1/q, gemini://h2/ and
\* gemini://hb/ (hb is a blacklisted domain).
UrlHost(u) ==
    CASE u \in {"u1", "u2"} -> "h1" [] u = "u3" -> "h2" [] OTHER -> "hb"

UrlPath(u) ==
    CASE u = "u1" -> <<"/", "p", "/", "x">>
      [] u = "u2" -> <<"/", "q">>
      [] OTHER -> <<"/">>

\* The domains of the blacklist.
blacklistedDomains == {"hb"}

NeverBlacklisted(u) == FALSE

\* gcrawler.IsBlacklisted
IsBlacklisted(u) == UrlHost(u) \in blacklistedDomains

\* strings.Join(list, "\n")
RECURSIVE Join(_)
Join(list) ==
    IF list = <<>> THEN <<>>
    ELSE IF Len(list) = 1 THEN list[1]
    ELSE list[1] \o <<"\n">> \o Join(Tail(list))

\* strings.Split(str, "\n"): always at least one element
RECURSIVE Split(_)
Split(str) ==
    IF \E i \in 1..Len(str) : str[i] = "\n"
    THEN LET i == CHOOSE k \in 1..Len(str) :
                      /\ str[k] = "\n"
                      /\ \A j \in 1..(k - 1) : str[j] # "\n"
         IN <<SubSeq(str, 1, i - 1)>> \o Split(SubSeq(str, i + 1, Len(str)))
    ELSE <<str>>

\* isBanned(parsedLink, robotsPrefixes)
isBanned(path, robotsPrefixes) ==
    \E i \in 1..Len(robotsPrefixes) : HasPrefix(path, robotsPrefixes[i])

\* The where clause of getDueUrls' query.
Due(u) ==
    LET r == urlRow[u]
        h == hostRow[UrlHost(u)]
    IN /\ r.exists
       /\ ~r.banned
       /\ (~h.exists \/ h.slowdownUntil = NULL \/ h.slowdownUntil < now)
       /\ \/ r.lastVisited = NULL
          \/ r.retryTime # NULL /\ r.lastVisited + r.retryTime < now

\* getRobotsPrefixesFromDb: [err, prefixes, validUntil].  The named result
\* validUntil is never assigned and stays the zero time.
getRobotsPrefixesFromDb(h) ==
    LET row == hostRow[h]
        nextTryTime == IF row.lastVisited = NULL \/ row.retryTime = NULL
                       THEN ZeroTime ELSE row.lastVisited + row.retryTime
    IN IF ~row.exists THEN
           [err |-> "norows", prefixes |-> <<>>, validUntil |-> ZeroTime]
       ELSE IF nextTryTime > now THEN
           [err |-> "backoff", prefixes |-> <<>>, validUntil |-> ZeroTime]
       ELSE IF ~row.prefixesValid THEN
           [err |-> "noprefixes", prefixes |-> <<>>, validUntil |-> ZeroTime]
       ELSE
           [err |-> "nil", prefixes |-> Split(row.prefixes),
            validUntil |-> ZeroTime]

\* The retry interval of the on conflict branch of
\* updateRobotsRulesInDbWithError: "excluded" is the row proposed for
\* insertion, whose robots_retry_time is the statement's $2.
RobotsRetryOnConflict(row, excluded) ==
    IF excluded.retryTime = NULL THEN tempErrorMinRetry
    ELSE Min(excluded.retryTime * 2, maxRevisitTime)

\* updateRobotsRulesInDbWithError: the host's row after the statement.
updateRobotsRulesInDbWithError(row, permanentError) ==
    LET interval == IF permanentError THEN permanentErrorRetry
                    ELSE tempErrorMinRetry
        excluded == [NoHost EXCEPT !.exists = TRUE, !.lastVisited = now,
                                   !.retryTime = interval,
                                   !.slowdownUntil = now + interval]
        retry == IF permanentError THEN permanentErrorRetry
                 ELSE RobotsRetryOnConflict(row, excluded)
    IN IF ~row.exists THEN excluded
       ELSE [row EXCEPT !.prefixesValid = FALSE, !.prefixes = <<>>,
                        !.lastVisited = now, !.retryTime = retry,
                        !.slowdownUntil = now + retry]

\* updateRobotsRulesInDbWithSuccess: the host's row after the statement.
updateRobotsRulesInDbWithSuccess(row, prefixes) ==
    IF ~row.exists
    THEN [NoHost EXCEPT !.exists = TRUE, !.prefixesValid = TRUE,
                        !.prefixes = Join(prefixes),
                        !.validUntil = now + robotsTxtValidity,
                        !.lastVisited = now]
    ELSE [row EXCEPT !.prefixesValid = TRUE, !.prefixes = Join(prefixes),
                     !.validUntil = now + robotsTxtValidity,
                     !.lastVisited = now, !.retryTime = NULL]

SlowDownHostSkipped(row, meta) == row

\* updateDbSlowDownError, the hosts statement: an update, so it changes
\* nothing when the host has no row; meta is NULL when strconv.Atoi fails.
SlowDownHost(row, meta) ==
    IF row.exists /\ meta # NULL
    THEN [row EXCEPT !.slowdownUntil = now + meta] ELSE row

updateDbTempErrorUncapped(row) ==
    IF ~row.exists THEN row
    ELSE [row EXCEPT !.lastVisited = now,
                     !.retryTime = IF row.retryTime = NULL
                                   THEN tempErrorMinRetry
                                   ELSE row.retryTime * 2]

\* updateDbTempError on a urls row.
updateDbTempError(row) ==
    IF ~row.exists THEN row
    ELSE [row EXCEPT !.lastVisited = now,
                     !.retryTime = IF row.retryTime = NULL
                                   THEN tempErrorMinRetry
                                   ELSE Min(row.retryTime * 2, maxRevisitTime)]

\* updateDbPermanentError on a urls row.
updateDbPermanentError(row) ==
    IF ~row.exists THEN row
    ELSE [row EXCEPT !.lastVisited = now, !.retryTime = permanentErrorRetry]

\* updateDbBanned on a urls row.
updateDbBanned(row, banned) ==
    IF ~row.exists THEN row ELSE [row EXCEPT !.banned = banned]

RevisitTimeReset(row, contentId) == revisitTimeAfterChange

\* The retry_time expression of updateDbSuccessfulVisit; least() skips nulls.
RevisitTime(row, contentId) ==
    IF row.contentId = contentId
    THEN IF row.retryTime = NULL THEN maxRevisitTime
         ELSE Min(row.retryTime + revisitTimeIncrementNoChange, maxRevisitTime)
    ELSE revisitTimeAfterChange

\* updateDbSuccessfulVisit: the urls table after the transaction.  Nothing is
\* written when the url has no row; else its row is updated and every link
\* of the page gets a row if it has none.
updateDbSuccessfulVisit(r) ==
    IF ~urlRow[r.url].exists THEN urlRow
    ELSE [u \in Urls |->
            IF u = r.url
            THEN [urlRow[u] EXCEPT !.lastVisited = now,
                                   !.contentId = r.contents,
                                   !.retryTime = RevisitTime(urlRow[u],
                                                             r.contents)]
            ELSE IF u \in r.links /\ ~urlRow[u].exists
            THEN [NoRow EXCEPT !.exists = TRUE]
            ELSE urlRow[u]]

ReplaceLinksKeepingOld(r) ==
    IF ~urlRow[r.url].exists THEN linkRow
    ELSE linkRow \cup {<<r.url, dst>> : dst \in r.links}

\* updateDbSuccessfulVisit: the links table after the transaction.  The rows
\* with source r.url are deleted and one row is inserted for each link of the
\* page; a second row for the same pair conflicts with the primary key and is
\* not inserted.
ReplaceLinks(r) ==
    IF ~urlRow[r.url].exists THEN linkRow
    ELSE {l \in linkRow : l[1] # r.url} \cup {<<r.url, dst>> : dst \in r.links}

\* Go's integer division truncates toward zero.
Div10(code) == IF code < 0 THEN -((-code) \div 10) ELSE code \div 10

\* The answers a robots.txt fetch can get (fetchRobotsRules): a 2x body that
\* parses to a prefix list; a 5x or another non-2x status, both an empty
\* list; 44 with its meta; a network error, permanent or not.
RobotsAnswers ==
    [kind : {"rules"},
     prefixes : {<<>>, << <<"/", "p">> >>, << <<"/", "z">> >>}, meta : {NULL}]
    \cup [kind : {"5x", "other", "neterr", "permerr"}, prefixes : {<<>>},
          meta : {NULL}]
    \cup [kind : {"slowdown"}, prefixes : {<<>>}, meta : {60, NULL}]

Cancelled == [kind |-> "cancelled", prefixes |-> <<>>, meta |-> NULL]

\* getOrFetchRobotsPrefixes(ctx, u) for host h, where a fetch, if one is made,
\* is answered by o: the prefixes and error returned, where the answer came
\* from, and the cache entry and hosts row left behind.
getOrFetchRobotsPrefixes(h, o) ==
    LET hit == robotsCache[h]
        db == getRobotsPrefixesFromDb(h)
        row == hostRow[h]
    IN IF hit.ok /\ hit.validUntil < now THEN
           [prefixes |-> hit.prefixes, err |-> "nil", source |-> "cache",
            cache |-> hit, row |-> row]
       ELSE IF db.err = "nil" THEN
           [prefixes |-> db.prefixes, err |-> "nil", source |-> "db",
            cache |-> [ok |-> TRUE, prefixes |-> db.prefixes,
                       validUntil |-> db.validUntil],
            row |-> row]
       ELSE IF db.err = "backoff" THEN
           [prefixes |-> <<>>, err |-> "backoff", source |-> "db",
            cache |-> NoCache, row |-> row]
       ELSE IF o.kind = "cancelled" THEN
           [prefixes |-> <<>>, err |-> "cancelled", source |-> "fetch",
            cache |-> NoCache, row |-> row]
       ELSE IF o.kind = "slowdown" THEN
           [prefixes |-> <<>>, err |-> "backoff", source |-> "fetch",
            cache |-> NoCache, row |-> SlowDownHost(row, o.meta)]
       ELSE IF o.kind \in {"neterr", "permerr"} THEN
           [prefixes |-> <<>>, err |-> "backoff", source |-> "fetch",
            cache |-> NoCache,
            row |-> updateRobotsRulesInDbWithError(row, o.kind = "permerr")]
       ELSE
           [prefixes |-> o.prefixes, err |-> "nil", source |-> "fetch",
            cache |-> NoCache,
            row |-> updateRobotsRulesInDbWithSuccess(row, o.prefixes)]

\* History: the last robots fetch of a host (its answer and its time) and
\* the host's run of failed fetches.
FetchHistory(hf, o) ==
    IF o.kind = "cancelled" THEN hf
    ELSE IF o.kind \in {"neterr", "permerr"}
    THEN [kind |-> o.kind, prefixes |-> <<>>, fails |-> hf.fails + 1,
          perm |-> (hf.perm \/ o.kind = "permerr"), at |-> now,
          meta |-> o.meta]
    ELSE IF o.kind = "slowdown"
    THEN [hf EXCEPT !.kind = o.kind, !.prefixes = <<>>, !.at = now,
                    !.meta = o.meta]
    ELSE [kind |-> o.kind, prefixes |-> o.prefixes, fails |-> 0,
          perm |-> FALSE, at |-> now, meta |-> o.meta]

\* The results the workers send on visitResults.
BannedResult(u) ==
    [url |-> u, statusCode |-> 0, error |-> FALSE, banned |-> TRUE,
     meta |-> NULL, contents |-> "none", links |-> {}]

(***************************************************************************)
(* seeder                                                                  *)
(***************************************************************************)
\* go getDueUrls(ctx, c): the query runs.
SeederQuery ==
    /\ ~crashed
    /\ seederPc = "query"
    /\ ~seedCancelled
    /\ sdPending' = {u \in Urls : Due(u)}
    /\ seederPc' = "iter"
    /\ UNCHANGED <<sdCur, seedCancelled, robotsCache, sdLast, hostFetch>>
    /\ UNCHANGED <<dbVars, cfg, mainVars, coordVars, visitorVars, chanVars,
                   flusherVars, cleanerPc, crashed>>

\* getDueUrls: Db.QueryContext fails under a cancelled context and
\* utils.PanicOnErr panics.
SeederQueryPanic ==
    /\ ~crashed
    /\ seederPc = "query"
    /\ seedCancelled
    /\ crashed' = TRUE
    /\ UNCHANGED <<dbVars, cfg, mainVars, seederVars, coordVars, visitorVars,
                   chanVars, flusherVars, cleanerPc>>

\* The seeder's goroutine: <-done; cancelFunc().
SeederDoneReceived ==
    /\ ~crashed
    /\ crawlPc # "run"
    /\ ~seedCancelled
    /\ seedCancelled' = TRUE
    /\ UNCHANGED <<seederPc, sdPending, sdCur, robotsCache, sdLast, hostFetch>>
    /\ UNCHANGED <<dbVars, cfg, mainVars, coordVars, visitorVars, chanVars,
                   flusherVars, cleanerPc, crashed>>

\* The body of the seeder's loop for the next row u, up to the send.
SeederNext(u, o) ==
    /\ ~crashed
    /\ seederPc = "iter"
    /\ u \in sdPending
    /\ o.kind = "cancelled" <=> seedCancelled
    /\ sdPending' = sdPending \ {u}
    /\ LET h == UrlHost(u)
           r == getOrFetchRobotsPrefixes(h, o)
           fetched == r.source = "fetch"
           decision ==
               IF IsBlacklisted(u) THEN "blacklisted"
               ELSE IF r.err = "cancelled" THEN "cancelled"
               ELSE IF r.err # "nil" THEN "backoff"
               ELSE IF isBanned(UrlPath(u), r.prefixes) THEN "banned"
               ELSE "forward"
       IN /\ sdLast' = [url |-> u, decision |-> decision,
                        source |-> IF IsBlacklisted(u) THEN "none" ELSE r.source,
                        at |-> now, validUntil |-> hostRow[h].validUntil,
                        due |-> Due(u)]
          /\ IF IsBlacklisted(u)
             THEN UNCHANGED <<robotsCache, hostRow, hostFetch>>
             ELSE /\ robotsCache' = [robotsCache EXCEPT ![h] = r.cache]
                  /\ hostRow' = [hostRow EXCEPT ![h] = r.row]
                  /\ hostFetch' = IF fetched
                                  THEN [hostFetch EXCEPT
                                          ![h] = FetchHistory(hostFetch[h], o)]
                                  ELSE hostFetch
          /\ seederPc' = CASE decision = "cancelled" -> "exited"
                           [] decision = "banned" -> "sendBanned"
                           [] decision = "forward" -> "sendOut"
                           [] OTHER -> "iter"
          /\ sdCur' = IF decision \in {"banned", "forward"} THEN u ELSE "none"
    /\ UNCHANGED <<now, nTicks, urlRow, linkRow, seedCancelled>>
    /\ UNCHANGED <<cfg, mainVars, coordVars, visitorVars, chanVars,
                   flusherVars, cleanerPc, crashed>>

\* getDueUrls closes c: the rows are exhausted, or the context is cancelled.
SeederRowsEnd ==
    /\ ~crashed
    /\ seederPc = "iter"
    /\ sdPending = {} \/ seedCancelled
    /\ sdPending' = {}
    /\ seederPc' = "sleep"
    /\ UNCHANGED <<sdCur, seedCancelled, robotsCache, sdLast, hostFetch>>
    /\ UNCHANGED <<dbVars, cfg, mainVars, coordVars, visitorVars, chanVars,
                   flusherVars, cleanerPc, crashed>>

\* visitResults <- VisitResult{url, banned: true}: a plain send.
SeederSendBanned ==
    /\ ~crashed
    /\ seederPc = "sendBanned"
    /\ Len(visitResults) < cfg.resultsCap
    /\ visitResults' = Append(visitResults, BannedResult(sdCur))
    /\ seederPc' = "iter"
    /\ sdCur' = "none"
    /\ UNCHANGED <<sdPending, seedCancelled, robotsCache, sdLast, hostFetch>>
    /\ UNCHANGED <<dbVars, cfg, mainVars, coordVars, visitorVars, urlChan,
                   inputUrls, flusherVars, cleanerPc, crashed>>

\* select: output <- urlString.
SeederSendOut ==
    /\ ~crashed
    /\ seederPc = "sendOut"
    /\ Len(urlChan) < cfg.urlChanCap
    /\ urlChan' = Append(urlChan, sdCur)
    /\ seederPc' = "iter"
    /\ sdCur' = "none"
    /\ UNCHANGED <<sdPending, seedCancelled, robotsCache, sdLast, hostFetch>>
    /\ UNCHANGED <<dbVars, cfg, mainVars, coordVars, visitorVars, inputUrls,
                   visitResults, flusherVars, cleanerPc, crashed>>

\* The seeder leaves its loop: <-ctx.Done() in the select of the send or of
\* the sleep.
SeederExit ==
    /\ ~crashed
    /\ seederPc \in {"sendOut", "sleep"}
    /\ seedCancelled
    /\ seederPc' = "exited"
    /\ sdCur' = "none"
    /\ UNCHANGED <<sdPending, seedCancelled, robotsCache, sdLast, hostFetch>>
    /\ UNCHANGED <<dbVars, cfg, mainVars, coordVars, visitorVars, chanVars,
                   flusherVars, cleanerPc, crashed>>

\* time.After(10 * time.Second) fires: the next pass.
SeederSleepOver ==
    /\ ~crashed
    /\ seederPc = "sleep"
    /\ seederPc' = "query"
    /\ UNCHANGED <<sdPending, sdCur, seedCancelled, robotsCache, sdLast,
                   hostFetch>>
    /\ UNCHANGED <<dbVars, cfg, mainVars, coordVars, visitorVars, chanVars,
                   flusherVars, cleanerPc, crashed>>

(***************************************************************************)
(* flusher                                                                 *)
(***************************************************************************)
FlushUrlsErrorBlind(r) ==
    LET row == urlRow[r.url] IN
    IF Div10(r.statusCode) = 2 THEN updateDbSuccessfulVisit(r)
    ELSE [urlRow EXCEPT ![r.url] =
            IF r.statusCode = 44 THEN updateDbTempError(row)
            ELSE IF Div10(r.statusCode) = 5 THEN updateDbPermanentError(row)
            ELSE IF Div10(r.statusCode) = 1 THEN updateDbPermanentError(row)
            ELSE IF r.banned THEN updateDbBanned(row, r.banned)
            ELSE updateDbTempError(row)]

\* The switch of the flusher: the urls table and the hosts row after
\* result r.
FlushUrls(r) ==
    LET row == urlRow[r.url] IN
    IF Div10(r.statusCode) = 2 /\ ~r.error THEN updateDbSuccessfulVisit(r)
    ELSE [urlRow EXCEPT ![r.url] =
            IF r.statusCode = 44 THEN updateDbTempError(row)
            ELSE IF Div10(r.statusCode) = 5 THEN updateDbPermanentError(row)
            ELSE IF Div10(r.statusCode) = 1 THEN updateDbPermanentError(row)
            ELSE IF r.banned THEN updateDbBanned(row, r.banned)
            ELSE updateDbTempError(row)]

\* The switch of the flusher: the links table after result r.
FlushLinks(r) ==
    IF Div10(r.statusCode) = 2 /\ ~r.error THEN ReplaceLinks(r) ELSE linkRow

FlushHostRow(r) ==
    LET row == hostRow[UrlHost(r.url)] IN
    IF r.statusCode = 44 THEN SlowDownHost(row, r.meta) ELSE row

\* case r := <-c: one result is taken and written to the store; for a 44
\* the statement on urls is run here and the one on hosts in the next step.
FlusherApply ==
    /\ ~crashed
    /\ flusherPc = "run"
    /\ visitResults # <<>>
    /\ LET r == Head(visitResults) IN
         /\ urlRow' = FlushUrls(r)
         /\ linkRow' = FlushLinks(r)
         /\ IF r.statusCode = 44
            THEN flusherPc' = "slowdown" /\ flCur' = r
            ELSE UNCHANGED <<flusherPc, flCur>>
    /\ visitResults' = Tail(visitResults)
    /\ UNCHANGED <<now, nTicks, hostRow, cfg, mainVars, seederVars, coordVars,
                   visitorVars, urlChan, inputUrls, cleanerPc, crashed>>

\* updateDbSlowDownError, its second statement: update hosts set
\* slowdown_until, run on its own after the statement on urls.
FlusherSlowDownHost ==
    /\ ~crashed
    /\ flusherPc = "slowdown"
    /\ hostRow' = [hostRow EXCEPT ![UrlHost(flCur.url)] = FlushHostRow(flCur)]
    /\ flusherPc' = "run"
    /\ flCur' = NoResult
    /\ UNCHANGED <<now, nTicks, urlRow, linkRow, cfg, mainVars, seederVars,
                   coordVars,
                   visitorVars, chanVars, cleanerPc, crashed>>

\* case <-done: break loop.
FlusherExit ==
    /\ ~crashed
    /\ flusherPc = "run"
    /\ crawlPc # "run"
    /\ flusherPc' = "exited"
    /\ UNCHANGED <<dbVars, cfg, mainVars, seederVars, coordVars, visitorVars,
                   chanVars, flCur, cleanerPc, crashed>>

(***************************************************************************)
(* The clock.                                                              *)
(***************************************************************************)
Tick ==
    /\ ~crashed
    /\ nTicks < MaxTicks
    /\ nTicks' = nTicks + 1
    /\ \E d \in TimeSteps : now' = now + d
    /\ UNCHANGED <<urlRow, hostRow, linkRow, cfg, mainVars, seederVars, coordVars,
                   visitorVars, chanVars, flusherVars, cleanerPc, crashed>>

(***************************************************************************)
(* coordinator                                                             *)
(***************************************************************************)
\* net.LookupIP(host): the first address, or "" for an error or an empty
\* answer.  Host h1 resolves in the runs whose configuration says so.
DnsAnswers(h) == IF h = "h1" THEN cfg.dns ELSE {"ip2", ""}

\* int(hashString(ip) % uint64(nprocs))
Shard(ip) == IF ip = "ip2" THEN 1 ELSE 0

Bump(n) == Min(n + 1, MaxFed)

SeenNothing(link) == FALSE

\* The seen test of the coordinator.
AlreadySeen(link) == seen[link]

\* case link := <-urlChan: one pass of the coordinator's loop.  answer is
\* what a DNS lookup returns if one is made; takeDone says that the inner
\* select takes <-done, which it can when done has been sent.
CoordinatorReceive(answer, takeDone) ==
    /\ ~crashed
    /\ coordPc = "run"
    /\ urlChan # <<>>
    /\ LET link == Head(urlChan)
           host == UrlHost(link)
           known == host2ip[host] # "unknown"
           ip == IF known THEN host2ip[host] ELSE answer
           n == Shard(ip)
           room == Len(inputUrls[n]) < cfg.shardCap
       IN /\ answer \in DnsAnswers(host)
          /\ urlChan' = Tail(urlChan)
          /\ fed' = [fed EXCEPT ![link] = Bump(@)]
          /\ IF AlreadySeen(link) THEN
                 /\ ~takeDone
                 /\ UNCHANGED <<seen, host2ip, inputUrls, coordPc, dispatched,
                                droppedFull>>
             ELSE
                 /\ seen' = [seen EXCEPT ![link] = TRUE]
                 /\ host2ip' = [host2ip EXCEPT ![host] = ip]
                 /\ IF ~known /\ ip = "" THEN
                        /\ ~takeDone
                        /\ UNCHANGED <<inputUrls, coordPc, dispatched,
                                       droppedFull>>
                    ELSE IF takeDone THEN
                        /\ crawlPc # "run"
                        /\ coordPc' = "exited"
                        /\ UNCHANGED <<inputUrls, dispatched, droppedFull>>
                    ELSE IF room THEN
                        /\ inputUrls' = [inputUrls EXCEPT
                                           ![n] = Append(@, link)]
                        /\ dispatched' = [dispatched EXCEPT ![link] = Bump(@)]
                        /\ UNCHANGED <<coordPc, droppedFull>>
                    ELSE
                        /\ crawlPc = "run"
                        /\ droppedFull' = droppedFull \cup {link}
                        /\ UNCHANGED <<inputUrls, coordPc, dispatched>>
    /\ UNCHANGED <<dbVars, cfg, mainVars, seederPc, sdPending, sdCur,
                   seedCancelled, robotsCache, sdLast, hostFetch, visitorVars,
                   visitResults, flusherVars, cleanerPc, crashed>>

\* case <-done: break loop.
CoordinatorExit ==
    /\ ~crashed
    /\ coordPc = "run"
    /\ crawlPc # "run"
    /\ coordPc' = "exited"
    /\ UNCHANGED <<dbVars, cfg, mainVars, seederVars, seen, host2ip, fed,
                   dispatched, droppedFull, visitorVars, chanVars, flusherVars,
                   cleanerPc, crashed>>

(***************************************************************************)
(* visitor                                                                 *)
(***************************************************************************)
\* The links of the pages of the model: gemini://h1/p/x links to
\* gemini://h2/.
PageLinks(u) == IF u = "u1" THEN {"u3"} ELSE {}

VisitKinds == {"ok", "parseerr", "slowdown", "notfound", "input", "temp",
               "neterr"}

\* The VisitResult the visitor builds for url u when the fetch ends as kind.
VisitResultOf(u, kind) ==
    LET code == CASE kind \in {"ok", "parseerr"} -> 20
                  [] kind = "slowdown" -> 44
                  [] kind = "notfound" -> 51
                  [] kind = "input" -> 10
                  [] kind = "temp" -> 40
                  [] OTHER -> -1
    IN [url |-> u, statusCode |-> code, error |-> (kind # "ok"),
        banned |-> FALSE, meta |-> IF kind = "slowdown" THEN 60 ELSE NULL,
        contents |-> IF kind = "ok" THEN "c1" ELSE "none",
        links |-> IF kind = "ok" THEN PageLinks(u) ELSE {}]

\* for urlStr := range urls: the next url of the visitor's queue; a closed
\* channel still hands out what it holds.
VisitorTake(i) ==
    /\ ~crashed
    /\ vPc[i] = "idle"
    /\ inputUrls[i] # <<>>
    /\ vCur' = [vCur EXCEPT ![i] = Head(inputUrls[i])]
    /\ inputUrls' = [inputUrls EXCEPT ![i] = Tail(@)]
    /\ vPc' = [vPc EXCEPT ![i] = "fetch"]
    /\ UNCHANGED <<dbVars, cfg, mainVars, seederVars, coordVars, chClosed,
                   vCancelled, urlChan, visitResults, flusherVars, cleanerPc,
                   crashed>>

\* readGemini returns: with context.Canceled the visitor breaks out of its
\* loop, else it has a result to send.
VisitorFetch(i) ==
    /\ ~crashed
    /\ vPc[i] = "fetch"
    /\ vPc' = [vPc EXCEPT ![i] = IF vCancelled[i] THEN "exited" ELSE "send"]
    /\ vCur' = [vCur EXCEPT ![i] = IF vCancelled[i] THEN "none" ELSE @]
    /\ UNCHANGED <<dbVars, cfg, mainVars, seederVars, coordVars, chClosed,
                   vCancelled, chanVars, flusherVars, cleanerPc, crashed>>

\* results <- VisitResult{...}; time.Sleep(1 * time.Second).
VisitorSend(i, kind) ==
    /\ ~crashed
    /\ vPc[i] = "send"
    /\ kind \in cfg.visits
    /\ Len(visitResults) < cfg.resultsCap
    /\ visitResults' = Append(visitResults, VisitResultOf(vCur[i], kind))
    /\ vPc' = [vPc EXCEPT ![i] = "idle"]
    /\ vCur' = [vCur EXCEPT ![i] = "none"]
    /\ UNCHANGED <<dbVars, cfg, mainVars, seederVars, coordVars, chClosed,
                   vCancelled, urlChan, inputUrls, flusherVars, cleanerPc,
                   crashed>>

\* The range over urls ends: the channel is closed and empty.
VisitorExit(i) ==
    /\ ~crashed
    /\ vPc[i] = "idle"
    /\ inputUrls[i] = <<>>
    /\ chClosed[i]
    /\ vPc' = [vPc EXCEPT ![i] = "exited"]
    /\ UNCHANGED <<dbVars, cfg, mainVars, seederVars, coordVars, chClosed,
                   vCur, vCancelled, chanVars, flusherVars, cleanerPc, crashed>>

(***************************************************************************)
(* cleaner                                                                 *)
(***************************************************************************)
\* Db.ExecContext returns: the cleaner sleeps, or breaks if its context has
\* been cancelled.
CleanerPass(cancelled) ==
    /\ ~crashed
    /\ cleanerPc = "exec"
    /\ cancelled => crawlPc # "run"
    /\ cleanerPc' = IF cancelled THEN "exited" ELSE "sleep"
    /\ UNCHANGED <<dbVars, cfg, mainVars, seederVars, coordVars, visitorVars,
                   chanVars, flusherVars, crashed>>

\* case <-time.After(15 * time.Minute)
CleanerWake ==
    /\ ~crashed
    /\ cleanerPc = "sleep"
    /\ cleanerPc' = "exec"
    /\ UNCHANGED <<dbVars, cfg, mainVars, seederVars, coordVars, visitorVars,
                   chanVars, flusherVars, crashed>>

\* case <-canceled: break loop.
CleanerExit ==
    /\ ~crashed
    /\ cleanerPc = "sleep"
    /\ crawlPc # "run"
    /\ cleanerPc' = "exited"
    /\ UNCHANGED <<dbVars, cfg, mainVars, seederVars, coordVars, visitorVars,
                   chanVars, flusherVars, crashed>>

(***************************************************************************)
(* crawl                                                                   *)
(***************************************************************************)
NProcs == Cardinality(Visitors)

\* case <-done: break loop, and the four sends on the workers' buffered done
\* channels.
CrawlShutdown ==
    /\ ~crashed
    /\ crawlPc = "run"
    /\ crawlPc' = "wait"
    /\ UNCHANGED <<dbVars, cfg, crawlIdx, drained, seederVars, coordVars,
                   visitorVars, chanVars, flusherVars, cleanerPc, crashed>>

\* subWg.Wait() returns.
CrawlWaited ==
    /\ ~crashed
    /\ crawlPc = "wait"
    /\ seederPc = "exited"
    /\ coordPc = "exited"
    /\ flusherPc = "exited"
    /\ cleanerPc = "exited"
    /\ crawlPc' = "close"
    /\ crawlIdx' = 0
    /\ UNCHANGED <<dbVars, cfg, drained, seederVars, coordVars, visitorVars,
                   chanVars, flusherVars, cleanerPc, crashed>>

\* close(c); visitorDone[i] <- true, received by the visitor's goroutine,
\* which cancels the visitor's context.
CrawlCloseVisitor ==
    /\ ~crashed
    /\ crawlPc = "close"
    /\ chClosed' = [chClosed EXCEPT ![crawlIdx] = TRUE]
    /\ vCancelled' = [vCancelled EXCEPT ![crawlIdx] = TRUE]
    /\ IF crawlIdx + 1 < NProcs
       THEN crawlIdx' = crawlIdx + 1 /\ UNCHANGED crawlPc
       ELSE crawlIdx' = 0 /\ crawlPc' = "drain"
    /\ UNCHANGED <<dbVars, cfg, drained, seederVars, coordVars, vPc, vCur,
                   chanVars, flusherVars, cleanerPc, crashed>>

\* for u := range c: one url of queue crawlIdx, or on to the next queue and,
\* after the last, the return of crawl.
CrawlDrain ==
    /\ ~crashed
    /\ crawlPc = "drain"
    /\ IF inputUrls[crawlIdx] # <<>> THEN
           /\ drained' = [drained EXCEPT
                            ![crawlIdx] = Append(@, Head(inputUrls[crawlIdx]))]
           /\ inputUrls' = [inputUrls EXCEPT ![crawlIdx] = Tail(@)]
           /\ UNCHANGED <<crawlPc, crawlIdx>>
       ELSE
           /\ IF crawlIdx + 1 < NProcs
              THEN crawlIdx' = crawlIdx + 1 /\ UNCHANGED crawlPc
              ELSE crawlPc' = "returned" /\ UNCHANGED crawlIdx
           /\ UNCHANGED <<drained, inputUrls>>
    /\ UNCHANGED <<dbVars, cfg, seederVars, coordVars, visitorVars, urlChan,
                   visitResults, flusherVars, cleanerPc, crashed>>

(***************************************************************************)
(* SpecRobots: the seeder and the flusher against the store while the      *)
(* clock advances and robots fetches succeed, answer 5x or fail.           *)
(***************************************************************************)
RobotsRows == {"u1", "u2"}

InitRobots ==
    /\ IdleIndex
    /\ IdleRobotsParse
    /\ IdleFetch
    /\ IdlePace
    /\ IdleIndexPages
    /\ IdleConn
    /\ IdleLib
    /\ now = 1
    /\ nTicks = 0
    /\ linkRow = {}
    /\ urlRow = [u \in Urls |->
                   IF u \in RobotsRows THEN [NoRow EXCEPT !.exists = TRUE]
                   ELSE NoRow]
    /\ hostRow = [h \in Hosts |-> NoHost]
    /\ cfg = [dns |-> {"ip1"},
              urlChanCap |-> 2, shardCap |-> 0, resultsCap |-> 1,
              robots |-> {o \in RobotsAnswers :
                            /\ o.kind \in {"rules", "5x", "neterr", "permerr",
                                            "slowdown"}
                            /\ o.prefixes # << <<"/", "z">> >>
                            /\ o.kind = "slowdown" => o.meta # NULL},
              visits |-> {}]
    /\ crawlPc = "run"
    /\ crawlIdx = 0
    /\ drained = [i \in Visitors |-> <<>>]
    /\ seederPc = "query"
    /\ sdPending = {}
    /\ sdCur = "none"
    /\ seedCancelled = FALSE
    /\ robotsCache = [h \in Hosts |-> NoCache]
    /\ urlChan = <<>>
    /\ coordPc = "run"
    /\ seen = [u \in Urls |-> FALSE]
    /\ host2ip = [h \in Hosts |-> "unknown"]
    /\ inputUrls = [i \in Visitors |-> <<>>]
    /\ chClosed = [i \in Visitors |-> FALSE]
    /\ vPc = [i \in Visitors |-> "idle"]
    /\ vCur = [i \in Visitors |-> "none"]
    /\ vCancelled = [i \in Visitors |-> FALSE]
    /\ visitResults = <<>>
    /\ flusherPc = "run"
    /\ flCur = NoResult
    /\ cleanerPc = "exec"
    /\ sdLast = NoLast
    /\ hostFetch = [h \in Hosts |-> NoFetch]
    /\ fed = [u \in Urls |-> 0]
    /\ dispatched = [u \in Urls |-> 0]
    /\ droppedFull = {}
    /\ crashed = FALSE

NextRobots ==
    /\ UNCHANGED <<libVars, ixVars, rbVars, rgVars, paceVars, ipVars, cnVars>>
    /\ \/ SeederQuery
       \/ \E u \in Urls, o \in cfg.robots : SeederNext(u, o)
       \/ SeederRowsEnd
       \/ SeederSendBanned
       \/ SeederSendOut
       \/ SeederSleepOver
       \/ FlusherApply
       \/ Tick

SpecRobots == InitRobots /\ [][NextRobots]_vars

(***************************************************************************)
(* Claims on the seeder's robots handling.                                 *)
(***************************************************************************)
\* The seeder's last lookup was answered with a prefix list.
LastAnswered == sdLast.decision \in {"banned", "forward"}

LastHost == UrlHost(sdLast.url)

\* C6: for a due url whose host has robots prefix list P (the list of the
\* host's last robots fetch), the seeder emits a banned result iff the
\* url's path begins with a prefix in P, and forwards the url otherwise.
C6_BannedIffPrefixMatches ==
    LastAnswered =>
        (sdLast.decision = "banned"
            <=> isBanned(UrlPath(sdLast.url), hostFetch[LastHost].prefixes))

\* C7: after a host's robots fetch was answered 5x, no url of the host is
\* emitted as banned: not on the lookup that fetched, and not on the later
\* lookups answered from the store or from the cache.
C7_NoRulesAfter5x ==
    (LastAnswered /\ hostFetch[LastHost].kind = "5x")
        => sdLast.decision = "forward"

\* C8: a lookup is answered with stored or cached robots data only up to the
\* data's validity time; after it the lookup fetches.
C8_ReusedOnlyWhileValid ==
    (LastAnswered /\ sdLast.source \in {"cache", "db"})
        => sdLast.at <= sdLast.validUntil

RECURSIVE Doubled(_)
Doubled(fails) ==
    IF fails <= 1 THEN tempErrorMinRetry
    ELSE Min(2 * Doubled(fails - 1), maxRevisitTime)

\* C10: after a run of n consecutive failed robots fetches of a host, none
\* of them a permanent network error, the host's robots retry interval is
\* 1 day doubled n - 1 times, at most 1 month; after a permanent network
\* error it is 1 month.
C10_RetryDoubles ==
    \A h \in Hosts :
        /\ (hostFetch[h].kind = "neterr" /\ ~hostFetch[h].perm)
               => hostRow[h].retryTime = Doubled(hostFetch[h].fails)
        /\ hostFetch[h].kind = "permerr"
               => hostRow[h].retryTime = permanentErrorRetry

\* The interval the host is to be left alone after its last robots fetch:
\* the seconds of a 44 answer's meta, the stored retry interval after a
\* failed fetch.
BackoffInterval(h) ==
    IF hostFetch[h].kind = "slowdown" THEN hostFetch[h].meta
    ELSE hostRow[h].retryTime

InBackoff(h) ==
    /\ hostFetch[h].kind \in {"neterr", "permerr", "slowdown"}
    /\ now < hostFetch[h].at + BackoffInterval(h)

\* A step of the seeder's loop that handles the next row.
LookupStep == seederPc = "iter" /\ sdLast' # sdLast

\* C11: while the backoff interval after a host's failed or slowed-down
\* robots fetch has not passed, the seeder's handling of a url of that host
\* neither fetches robots.txt nor forwards the url.
C11_HostSkippedDuringBackoff ==
    [][(LookupStep /\ sdLast'.source # "none"
           /\ InBackoff(UrlHost(sdLast'.url)))
          => (sdLast'.source # "fetch" /\ sdLast'.decision = "backoff")]_vars

(***************************************************************************)
(* SpecCrawl: the whole crawler, with queues of capacity 1, through        *)
(* shutdown.                                                               *)
(***************************************************************************)
CrawlRows == {"u1", "u2"}

InitCrawl ==
    /\ IdleIndex
    /\ IdleRobotsParse
    /\ IdleFetch
    /\ IdlePace
    /\ IdleIndexPages
    /\ IdleConn
    /\ IdleLib
    /\ now = 1
    /\ nTicks = 0
    /\ linkRow = {}
    /\ urlRow = [u \in Urls |->
                   IF u \in CrawlRows THEN [NoRow EXCEPT !.exists = TRUE]
                   ELSE NoRow]
    /\ hostRow = [h \in Hosts |-> NoHost]
    /\ cfg = [dns |-> {"ip1"},
              urlChanCap |-> 1, shardCap |-> 1, resultsCap |-> 1,
              robots |-> {o \in RobotsAnswers :
                            /\ o.kind = "rules"
                            /\ o.prefixes # << <<"/", "p">> >>},
              visits |-> {"ok"}]
    /\ crawlPc = "run"
    /\ crawlIdx = 0
    /\ drained = [i \in Visitors |-> <<>>]
    /\ seederPc = "query"
    /\ sdPending = {}
    /\ sdCur = "none"
    /\ seedCancelled = FALSE
    /\ robotsCache = [h \in Hosts |-> NoCache]
    /\ urlChan = <<>>
    /\ coordPc = "run"
    /\ seen = [u \in Urls |-> FALSE]
    /\ host2ip = [h \in Hosts |-> "unknown"]
    /\ inputUrls = [i \in Visitors |-> <<>>]
    /\ chClosed = [i \in Visitors |-> FALSE]
    /\ vPc = [i \in Visitors |-> "idle"]
    /\ vCur = [i \in Visitors |-> "none"]
    /\ vCancelled = [i \in Visitors |-> FALSE]
    /\ visitResults = <<>>
    /\ flusherPc = "run"
    /\ flCur = NoResult
    /\ cleanerPc = "exec"
    /\ sdLast = NoLast
    /\ hostFetch = [h \in Hosts |-> NoFetch]
    /\ fed = [u \in Urls |-> 0]
    /\ dispatched = [u \in Urls |-> 0]
    /\ droppedFull = {}
    /\ crashed = FALSE

NextCrawl ==
    /\ UNCHANGED <<libVars, ixVars, rbVars, rgVars, paceVars, ipVars, cnVars>>
    /\ \/ SeederQuery
       \/ SeederQueryPanic
       \/ SeederDoneReceived
       \/ \E u \in Urls, o \in cfg.robots \cup {Cancelled} : SeederNext(u, o)
       \/ SeederRowsEnd
       \/ SeederSendBanned
       \/ SeederSendOut
       \/ SeederExit
       \/ SeederSleepOver
       \/ \E answer \in {"ip1", "ip2", ""}, takeDone \in BOOLEAN :
              CoordinatorReceive(answer, takeDone)
       \/ CoordinatorExit
       \/ \E i \in Visitors : VisitorTake(i)
       \/ \E i \in Visitors : VisitorFetch(i)
       \/ \E i \in Visitors, kind \in VisitKinds : VisitorSend(i, kind)
       \/ \E i \in Visitors : VisitorExit(i)
       \/ FlusherApply
       \/ FlusherExit
       \/ \E cancelled \in BOOLEAN : CleanerPass(cancelled)
       \/ CleanerWake
       \/ CleanerExit
       \/ CrawlShutdown
       \/ CrawlWaited
       \/ CrawlCloseVisitor
       \/ CrawlDrain

SpecCrawl == InitCrawl /\ [][NextCrawl]_vars

(***************************************************************************)
(* Claims on the crawler's pipeline and its shutdown.                      *)
(***************************************************************************)
\* The seeder is in its send of a banned result, the results queue is full
\* and the flusher, the queue's only reader, has exited.
SeederBlockedForGood ==
    /\ seederPc = "sendBanned"
    /\ Len(visitResults) >= cfg.resultsCap
    /\ flusherPc = "exited"

\* C2: once the shutdown signal is delivered the crawler terminates: while
\* crawl() waits for its workers, none of them is blocked for good, also
\* when the results queue is full or a worker is in a queue send.
C2_ShutdownTerminates == crawlPc = "wait" => ~SeederBlockedForGood

\* This step puts url u on a visitor queue.
Enqueued(u) ==
    \E i \in Visitors :
        /\ Len(inputUrls'[i]) = Len(inputUrls[i]) + 1
        /\ inputUrls'[i][Len(inputUrls'[i])] = u

\* This step starts a visitor's fetch of url u.
FetchStarted(u) == \E i \in Visitors : vCur'[i] = u /\ vCur[i] # u

\* This step is the coordinator's receive of a url it dropped on a full
\* queue before, fed again by the seeder, while the url's queue has room and
\* the coordinator stays in its loop.
DroppedFedAgain ==
    /\ urlChan # <<>>
    /\ urlChan' = Tail(urlChan)
    /\ Head(urlChan) \in droppedFull
    /\ coordPc' = "run"
    /\ Len(inputUrls[Shard(host2ip[UrlHost(Head(urlChan))])]) < cfg.shardCap

\* C3: a url dropped on a full visitor queue is not lost: when the seeder
\* feeds it again and its queue has room, the coordinator dispatches it.
C3_DroppedIsDispatchedLater ==
    [][DroppedFedAgain => Enqueued(Head(urlChan))]_vars

\* C4: within a session the coordinator places a url on a visitor queue at
\* most once, however often the seeder feeds it.
C4_DispatchedAtMostOnce == \A u \in Urls : dispatched[u] <= 1

C4_Witness == \E u \in Urls : fed[u] >= 2 /\ dispatched[u] = 1

\* C5: a url whose banned flag is set in the store is not placed on a
\* visitor queue and not fetched afterwards.
C5_BannedNeverDispatched ==
    [][\A u \in Urls :
          urlRow[u].banned => (~Enqueued(u) /\ ~FetchStarted(u))]_vars

(***************************************************************************)
(* readGemini: the requests of one fetch.  Each pass of its loop makes the *)
(* request twice (trust on first use) and handles the second answer.       *)
(***************************************************************************)
maxRedirects == 5

\* redirs == maxRedirects, tested after redirs++
TooManyRedirects(n) == n = maxRedirects

\* One pass of the loop of readGemini in visitor 0: the next answer of the
\* chain is a request error, a 20 with a text type, a 51, or a redirect.
ReadGeminiRequest ==
    /\ ~crashed
    /\ vPc[0] = "fetch"
    /\ rgOut = "none"
    /\ rgPos < Len(rgChain)
    /\ rgPos' = rgPos + 1
    /\ LET a == rgChain[rgPos + 1] IN
         IF a = "redirect"
         THEN /\ redirs' = redirs + 1
              /\ rgOut' = IF TooManyRedirects(redirs + 1)
                          THEN "toomany" ELSE "none"
         ELSE /\ rgOut' = a
              /\ UNCHANGED redirs
    /\ UNCHANGED rgChain

\* The visitor's result for what readGemini returned: an error gives
\* statusCode -1, a status its code.
ResultKind(out) ==
    CASE out = "success" -> "ok"
      [] out = "notfound" -> "notfound"
      [] OTHER -> "neterr"

\* The chains of answers: n redirects, then a final answer.
RECURSIVE Redirects(_)
Redirects(n) == IF n = 0 THEN <<>> ELSE <<"redirect">> \o Redirects(n - 1)

Chains ==
    {Redirects(n) \o <<final>> :
        n \in 0..MaxChain, final \in {"success", "notfound", "reqerr"}}

FetchRows == {"u1"}

InitFetch ==
    /\ IdleIndex
    /\ IdleRobotsParse
    /\ IdlePace
    /\ IdleIndexPages
    /\ IdleConn
    /\ IdleLib
    /\ rgChain \in Chains
    /\ rgPos = 0
    /\ redirs = 0
    /\ rgOut = "none"
    /\ now = 1
    /\ nTicks = 0
    /\ linkRow = {}
    /\ urlRow = [u \in Urls |->
                   IF u \in FetchRows THEN [NoRow EXCEPT !.exists = TRUE]
                   ELSE NoRow]
    /\ hostRow = [h \in Hosts |-> NoHost]
    /\ cfg = [dns |-> {"ip1"},
              urlChanCap |-> 1, shardCap |-> 1, resultsCap |-> 1,
              robots |-> {o \in RobotsAnswers :
                            o.prefixes = << <<"/", "z">> >>},
              visits |-> {"ok", "notfound", "neterr"}]
    /\ crawlPc = "run"
    /\ crawlIdx = 0
    /\ drained = [i \in Visitors |-> <<>>]
    /\ seederPc = "query"
    /\ sdPending = {}
    /\ sdCur = "none"
    /\ seedCancelled = FALSE
    /\ robotsCache = [h \in Hosts |-> NoCache]
    /\ urlChan = <<>>
    /\ coordPc = "run"
    /\ seen = [u \in Urls |-> FALSE]
    /\ host2ip = [h \in Hosts |-> "unknown"]
    /\ inputUrls = [i \in Visitors |-> <<>>]
    /\ chClosed = [i \in Visitors |-> FALSE]
    /\ vPc = [i \in Visitors |-> "idle"]
    /\ vCur = [i \in Visitors |-> "none"]
    /\ vCancelled = [i \in Visitors |-> FALSE]
    /\ visitResults = <<>>
    /\ flusherPc = "run"
    /\ flCur = NoResult
    /\ cleanerPc = "exec"
    /\ sdLast = NoLast
    /\ hostFetch = [h \in Hosts |-> NoFetch]
    /\ fed = [u \in Urls |-> 0]
    /\ dispatched = [u \in Urls |-> 0]
    /\ droppedFull = {}
    /\ crashed = FALSE

NextFetch ==
    /\ UNCHANGED <<libVars, ixVars, rbVars, paceVars, ipVars, cnVars>>
    /\ \/ ReadGeminiRequest /\ UNCHANGED crVars
       \/ /\ UNCHANGED rgVars
          /\ \/ SeederQuery
             \/ \E u \in Urls, o \in cfg.robots : SeederNext(u, o)
             \/ SeederRowsEnd
             \/ SeederSendOut
             \/ SeederSleepOver
             \/ \E answer \in {"ip1", "ip2", ""} :
                    CoordinatorReceive(answer, FALSE)
             \/ VisitorTake(0)
             \/ rgOut # "none" /\ VisitorFetch(0)
             \/ VisitorSend(0, ResultKind(rgOut))
             \/ FlusherApply

SpecFetch == InitFetch /\ [][NextFetch]_vars

\* The number of redirects the servers answer with before the final answer.
ChainRedirects == Len(rgChain) - 1

FinalAnswer == rgChain[Len(rgChain)]

\* The flusher has written the result of the fetch to the store.
FetchFlushed == urlRow["u1"].lastVisited # NULL

\* C18: a fetch follows at most maxRedirects = 5 redirects: a chain of 5 or
\* fewer redirects is followed to its final answer, and the too-many-
\* redirects error arises only on a chain of more than 5.
C18_FollowsFiveRedirects ==
    rgOut # "none" =>
        /\ ChainRedirects <= maxRedirects => rgOut = FinalAnswer
        /\ rgOut = "toomany" => ChainRedirects > maxRedirects

\* C19: a chain of 6 redirects gives the too-many-redirects error, and the
\* flusher records its result as a permanent error, retry_time 1 month.
C19_TooManyIsPermanent ==
    (ChainRedirects >= 6 /\ rgOut # "none")
        => /\ rgOut = "toomany"
           /\ FetchFlushed => urlRow["u1"].retryTime = permanentErrorRetry

(***************************************************************************)
(* SpecVisits: gemini://h1/p/x, with a row left by earlier sessions, and   *)
(* the never visited gemini://h1/q go through the seeder, the coordinator, *)
(* a visitor and the flusher; the visits of a behaviour end in one kind.   *)
(***************************************************************************)
Visited(retryTime, contentId) ==
    [exists |-> TRUE, banned |-> FALSE, lastVisited |-> 1,
     retryTime |-> retryTime, contentId |-> contentId]

\* Rows the flusher's statements leave on a url: never visited, after
\* temporary errors, after a permanent error, after successful visits.
StoredRows ==
    {[NoRow EXCEPT !.exists = TRUE],
     Visited(Day, "none"), Visited(16 * Day, "none"), Visited(Month, "none"),
     Visited(2 * Day, "c1"), Visited(2 * Day, "c2"), Visited(16 * Day, "c1"),
     Visited(28 * Day, "c1"), Visited(Month, "c1")}

InitVisits ==
    /\ IdleIndex
    /\ IdleRobotsParse
    /\ IdleFetch
    /\ IdlePace
    /\ IdleIndexPages
    /\ IdleConn
    /\ IdleLib
    /\ now = 2 * Month + 1
    /\ nTicks = 0
    /\ \E row \in StoredRows, kind \in VisitKinds :
         /\ urlRow = [u \in Urls |->
                        IF u = "u1" THEN row
                        ELSE IF u = "u2" THEN [NoRow EXCEPT !.exists = TRUE]
                        ELSE NoRow]
         /\ cfg = [dns |-> {"ip1"},
                   urlChanCap |-> 1, shardCap |-> 1, resultsCap |-> 1,
                   robots |-> {o \in RobotsAnswers :
                                 o.kind = "rules" /\ o.prefixes # <<>>},
                   visits |-> {kind}, stored |-> row]
         /\ linkRow = IF row.contentId = "none" THEN {}
                      ELSE {<<"u1", "u2">>}
    /\ hostRow = [h \in Hosts |-> NoHost]
    /\ crawlPc = "run"
    /\ crawlIdx = 0
    /\ drained = [i \in Visitors |-> <<>>]
    /\ seederPc = "query"
    /\ sdPending = {}
    /\ sdCur = "none"
    /\ seedCancelled = FALSE
    /\ robotsCache = [h \in Hosts |-> NoCache]
    /\ urlChan = <<>>
    /\ coordPc = "run"
    /\ seen = [u \in Urls |-> FALSE]
    /\ host2ip = [h \in Hosts |-> "unknown"]
    /\ inputUrls = [i \in Visitors |-> <<>>]
    /\ chClosed = [i \in Visitors |-> FALSE]
    /\ vPc = [i \in Visitors |-> "idle"]
    /\ vCur = [i \in Visitors |-> "none"]
    /\ vCancelled = [i \in Visitors |-> FALSE]
    /\ visitResults = <<>>
    /\ flusherPc = "run"
    /\ flCur = NoResult
    /\ cleanerPc = "exec"
    /\ sdLast = NoLast
    /\ hostFetch = [h \in Hosts |-> NoFetch]
    /\ fed = [u \in Urls |-> 0]
    /\ dispatched = [u \in Urls |-> 0]
    /\ droppedFull = {}
    /\ crashed = FALSE

NextVisits ==
    /\ UNCHANGED <<libVars, ixVars, rbVars, rgVars, paceVars, ipVars, cnVars>>
    /\ \/ SeederQuery
       \/ \E u \in Urls, o \in cfg.robots : SeederNext(u, o)
       \/ SeederRowsEnd
       \/ SeederSendBanned
       \/ SeederSendOut
       \/ SeederSleepOver
       \/ \E answer \in {"ip1", "ip2", ""} : CoordinatorReceive(answer, FALSE)
       \/ \E i \in Visitors : VisitorTake(i)
       \/ \E i \in Visitors : VisitorFetch(i)
       \/ \E i \in Visitors, kind \in VisitKinds : VisitorSend(i, kind)
       \/ FlusherApply
       \/ FlusherSlowDownHost

SpecVisits == InitVisits /\ [][NextVisits]_vars

(***************************************************************************)
(* Claims on the flusher's policies.                                       *)
(***************************************************************************)
\* The kind of visit result of this behaviour.
Kind == CHOOSE k \in VisitKinds : cfg.visits = {k}

\* The row a url had before this session.
Stored(u) == IF u = "u1" THEN cfg.stored ELSE [NoRow EXCEPT !.exists = TRUE]

\* The flusher has written the visit result of url u to the urls table.
Flushed(u) == urlRow[u].lastVisited = now

TempRetry(st) ==
    IF st.retryTime = NULL THEN Day ELSE Min(2 * st.retryTime, Month)

SuccessRetry(st) ==
    IF st.contentId = "c1" THEN Min(st.retryTime + 2 * Day, Month)
    ELSE 2 * Day

\* C12: once the flusher has processed a 44 result with meta 60, the host's
\* slowdown_until is now + 60 seconds and the url has the temporary-error
\* update.
C12_SlowDownRecorded ==
    \A u \in {"u1", "u2"} :
        (Kind = "slowdown" /\ Flushed(u) /\ flusherPc = "run")
            => /\ hostRow[UrlHost(u)].slowdownUntil = now + 60
               /\ urlRow[u].retryTime = TempRetry(Stored(u))

C12_Witness ==
    /\ Kind = "slowdown"
    /\ Flushed("u1")
    /\ flusherPc = "run"
    /\ cfg.stored.retryTime = Day
    /\ urlRow["u1"].retryTime = 2 * Day
    /\ hostRow["h1"].slowdownUntil = now + 60

\* This step puts url u on the seeder's output.
Forwarded(u) == urlChan' = Append(urlChan, u)

SlowdownOpen(h) ==
    /\ hostRow[h].exists
    /\ hostRow[h].slowdownUntil # NULL
    /\ hostRow[h].slowdownUntil >= now

\* C13: the seeder emits no url of a host while that host's slowdown window
\* is open (and none that is banned).
C13_ForwardedOnlyWhenDue ==
    [][\A u \in Urls :
          Forwarded(u) => (~urlRow[u].banned /\ ~SlowdownOpen(UrlHost(u)))]_vars

C15_OneTransactionPerResult ==
    \A u \in {"u1", "u2"} :
        (Kind = "slowdown" /\ Flushed(u))
            => hostRow[UrlHost(u)].slowdownUntil = now + 60

\* C16: a successful visit sets retry_time to min(previous + 2 days,
\* 1 month) when the content is the one the url referenced, else to 2 days.
C16_SuccessRetry ==
    \A u \in {"u1", "u2"} :
        (Kind = "ok" /\ Flushed(u)) =>
            urlRow[u].retryTime =
                IF Stored(u).contentId = urlRow[u].contentId
                THEN Min(Stored(u).retryTime + 2 * Day, Month)
                ELSE 2 * Day

C16_Witness ==
    /\ Kind = "ok"
    /\ Flushed("u1")
    /\ cfg.stored = Visited(2 * Day, "c1")
    /\ urlRow["u1"].retryTime = 4 * Day

\* C17: a temporary error sets retry_time to 1 day if it was null, else to
\* min(2 x previous, 1 month): it never decreases and stops at 1 month.
C17_TempErrorRetry ==
    \A u \in {"u1", "u2"} :
        (Kind \in {"temp", "neterr", "parseerr"} /\ Flushed(u)) =>
            /\ Stored(u).retryTime = NULL => urlRow[u].retryTime = Day
            /\ Stored(u).retryTime # NULL
                 => urlRow[u].retryTime = Min(2 * Stored(u).retryTime, Month)
            /\ urlRow[u].retryTime >= Stored(u).retryTime
            /\ urlRow[u].retryTime <= Month

C17_Witness ==
    /\ Kind = "temp"
    /\ Flushed("u1")
    /\ cfg.stored = Visited(16 * Day, "none")
    /\ urlRow["u1"].retryTime = Month
    /\ urlRow["u2"].retryTime = Day


(***************************************************************************)
(* Claims on the visitor.                                                  *)
(***************************************************************************)
\* Visitor i stops handling the url it took from its queue.
VisitEnds(i) == vCur[i] # "none" /\ vCur'[i] # vCur[i]

\* C20: whenever a visitor stops handling a url it took from its queue, that
\* step puts exactly one result, for that url, on the results queue.
C20_ExactlyOneResult ==
    [][\A i \in Visitors :
          VisitEnds(i) =>
              /\ Len(visitResults') = Len(visitResults) + 1
              /\ visitResults'[Len(visitResults')].url = vCur[i]]_vars


(***************************************************************************)
(* SpecPace: the coordinator and the visitors against the clock.  At the   *)
(* start the seeder has forwarded three urls, two of them of one host, and *)
(* sleeps; a fetch succeeds or ends in a request error, and a server may   *)
(* answer a request with a redirect to another host.                       *)
(***************************************************************************)
\* The visitor's loop body for a result of this kind reaches
\* time.Sleep(1 * time.Second): the err != nil branch ends in continue.
Sleeps(kind) == VisitResultOf("u1", kind).statusCode # -1

\* for urlStr := range urls, reached at the start or after the loop body,
\* whose time.Sleep has returned; readGemini starts with u the url taken.
PacedTake(i) ==
    /\ now >= vWake[i]
    /\ VisitorTake(i)
    /\ contact' = [contact EXCEPT ![i] = UrlHost(Head(inputUrls[i]))]
    /\ UNCHANGED <<vWake, lastFetch>>

\* readGemini: a request is answered 3x with meta target; u = target and
\* goto redirect.  The servers of the model redirect a fetch once, to a url
\* of another host.
ReadGeminiRedirect(i, target) ==
    /\ ~crashed
    /\ vPc[i] = "fetch"
    /\ contact[i] = UrlHost(vCur[i])
    /\ UrlHost(target) # contact[i]
    /\ contact' = [contact EXCEPT ![i] = UrlHost(target)]
    /\ UNCHANGED <<vWake, lastFetch, crVars>>

\* readGemini returns.
PacedFetch(i) ==
    /\ VisitorFetch(i)
    /\ contact' = [contact EXCEPT ![i] = "none"]
    /\ lastFetch' = [lastFetch EXCEPT ![UrlHost(vCur[i])] = now]
    /\ UNCHANGED vWake

\* The rest of the visitor's loop body: the send, and the sleep on the
\* branches that reach it.
PacedSend(i, kind) ==
    /\ VisitorSend(i, kind)
    /\ vWake' = [vWake EXCEPT ![i] = IF Sleeps(kind) THEN now + 1 ELSE @]
    /\ UNCHANGED <<contact, lastFetch>>

PaceRows == {"u1", "u2", "u3"}

InitPace ==
    /\ IdleIndex
    /\ IdleRobotsParse
    /\ IdleFetch
    /\ IdlePace
    /\ IdleIndexPages
    /\ IdleConn
    /\ IdleLib
    /\ now = 1
    /\ nTicks = 0
    /\ linkRow = {}
    /\ urlRow = [u \in Urls |->
                   IF u \in PaceRows THEN [NoRow EXCEPT !.exists = TRUE]
                   ELSE NoRow]
    /\ hostRow = [h \in Hosts |->
                    IF h \in {UrlHost(u) : u \in PaceRows}
                    THEN updateRobotsRulesInDbWithSuccess(NoHost, <<>>)
                    ELSE NoHost]
    /\ cfg = [dns |-> {"ip1"},
              urlChanCap |-> 3, shardCap |-> 2, resultsCap |-> 1,
              robots |-> {}, visits |-> {"ok", "neterr"}]
    /\ crawlPc = "run"
    /\ crawlIdx = 0
    /\ drained = [i \in Visitors |-> <<>>]
    /\ seederPc = "sleep"
    /\ sdPending = {}
    /\ sdCur = "none"
    /\ seedCancelled = FALSE
    /\ robotsCache = [h \in Hosts |-> NoCache]
    /\ urlChan \in {<<"u1", "u2", "u3">>, <<"u3", "u1", "u2">>}
    /\ coordPc = "run"
    /\ seen = [u \in Urls |-> FALSE]
    /\ host2ip = [h \in Hosts |-> "unknown"]
    /\ inputUrls = [i \in Visitors |-> <<>>]
    /\ chClosed = [i \in Visitors |-> FALSE]
    /\ vPc = [i \in Visitors |-> "idle"]
    /\ vCur = [i \in Visitors |-> "none"]
    /\ vCancelled = [i \in Visitors |-> FALSE]
    /\ visitResults = <<>>
    /\ flusherPc = "run"
    /\ flCur = NoResult
    /\ cleanerPc = "exec"
    /\ sdLast = NoLast
    /\ hostFetch = [h \in Hosts |-> NoFetch]
    /\ fed = [u \in Urls |-> 0]
    /\ dispatched = [u \in Urls |-> 0]
    /\ droppedFull = {}
    /\ crashed = FALSE

NextPace ==
    /\ UNCHANGED <<libVars, ixVars, rbVars, rgVars, ipVars, cnVars>>
    /\ \/ \E i \in Visitors : PacedTake(i)
       \/ \E i \in Visitors, target \in Urls : ReadGeminiRedirect(i, target)
       \/ \E i \in Visitors : PacedFetch(i)
       \/ \E i \in Visitors, kind \in VisitKinds : PacedSend(i, kind)
       \/ /\ UNCHANGED paceVars
          /\ \/ \E answer \in {"ip1", "ip2", ""} :
                    CoordinatorReceive(answer, FALSE)
             \/ FlusherApply
             \/ Tick

SpecPace == InitPace /\ [][NextPace]_vars

(***************************************************************************)
(* Claims on the pace of the visitors.                                     *)
(***************************************************************************)
\* Visitor i's readGemini returns in this step.
FetchReturns(i) == vPc[i] = "fetch" /\ vPc'[i] = "send"

\* C21: when a visitor's fetch of a url returns, at least one second has
\* passed since the last fetch of a url of the same host returned, whatever
\* that fetch's outcome was.
C21_OneSecondBetweenFetches ==
    [][\A i \in Visitors :
          (FetchReturns(i) /\ lastFetch[UrlHost(vCur[i])] # NULL)
              => now >= lastFetch[UrlHost(vCur[i])] + 1]_vars

\* Every url a visitor holds, in its queue or in hand, is on the shard of
\* its host's address.
OnShardOfHost ==
    \A i \in Visitors, u \in Urls :
        (vCur[i] = u \/ \E k \in 1..Len(inputUrls[i]) : inputUrls[i][k] = u)
            => i = Shard(host2ip[UrlHost(u)])

\* C22: the urls of a host, and of the hosts with the same address, are all
\* on one visitor's shard, and no two visitors are fetching from the same
\* host at the same time.
C22_OneVisitorPerHost ==
    /\ OnShardOfHost
    /\ \A i, j \in Visitors :
           (i # j /\ vPc[i] = "fetch" /\ vPc[j] = "fetch")
               => contact[i] # contact[j]

(***************************************************************************)
(* Claims on the link rows (SpecVisits).                                   *)
(***************************************************************************)
\* The link rows with source u, in the store now and before this session.
LinksOf(u) == {l \in linkRow : l[1] = u}

StoredLinks(u) ==
    IF u = "u1" /\ cfg.stored.contentId # "none" THEN {<<"u1", "u2">>} ELSE {}

PageLinkRows(u) == {<<u, dst>> : dst \in PageLinks(u)}

\* C23: after the flusher has processed a successful visit of a url, the
\* link rows with that source are one row for each link of the page and no
\* others; and at every moment the rows with that source are either the
\* ones of before the visit or the ones of the page, never a part of them.
C23_LinksReplaced ==
    \A u \in {"u1", "u2"} :
        /\ (Kind = "ok" /\ Flushed(u)) => LinksOf(u) = PageLinkRows(u)
        /\ LinksOf(u) \in {StoredLinks(u), PageLinkRows(u)}

C23_Witness ==
    /\ Kind = "ok"
    /\ Flushed("u1")
    /\ StoredLinks("u1") = {<<"u1", "u2">>}
    /\ linkRow = {<<"u1", "u3">>}

(***************************************************************************)
(* Claims on startup and on the rebuild cycle (SpecIndex).                 *)
(***************************************************************************)
\* loadInitialIndex has returned and no daemon has gone on: the slots are as
\* startup found them.
JustLoaded == loadIndexOnce = "done" /\ ixPc = "start" /\ srPc = "start"

Live(s) == idx = {s} /\ curIdx = s

\* C26: at startup with both slots present, if exactly one opens it becomes
\* the live index, and if both open and report their document counts the one
\* with the larger count does; exactly one slot is in the alias.
C26_StartupPicksSlot ==
    (JustLoaded /\ SlotExists("ping") /\ SlotExists("pong")) =>
        /\ Cardinality(idx) = 1
        /\ (SlotOpens("ping") /\ ~SlotOpens("pong")) => Live("ping")
        /\ (SlotOpens("pong") /\ ~SlotOpens("ping")) => Live("pong")
        /\ (SlotCounts("ping") /\ SlotCounts("pong")
               /\ slotCount["ping"] > slotCount["pong"]) => Live("ping")
        /\ (SlotCounts("ping") /\ SlotCounts("pong")
               /\ slotCount["pong"] > slotCount["ping"]) => Live("pong")

\* ping holds fewer documents than pong, and pong went live.
C26_Witness ==
    /\ JustLoaded
    /\ SlotCounts("ping") /\ SlotCounts("pong")
    /\ slotCount["ping"] = 1 /\ slotCount["pong"] = 2
    /\ Live("pong")

\* Startup has not called loadInitialIndex yet and neither slot opens.
NoneOpens ==
    loadIndexOnce = "idle" /\ ~SlotOpens("ping") /\ ~SlotOpens("pong")

\* C27: when neither slot opens at startup, absent or unreadable,
\* loadInitialIndex does not fail: it starts the build of a fresh ping index,
\* which is made live before the search daemon listens.
C27_FreshPingWhenNoneOpens ==
    [][NoneOpens =>
          /\ ~panicked'
          /\ loadIndexOnce' # "idle"
                 => (loadIndexOnce' = "running" /\ curIdx' = "ping")]_vars

\* indexDb's swap: a rebuild cycle completes in this step.
CycleCompletes == ixPc = "build" /\ ixPc' = "sleep" /\ ~ixCancelled

\* C28: a slot's files are removed or written only while the alias does not
\* reference it, and a completed rebuild cycle leaves the other slot live.
C28_RebuildsInactiveSlot ==
    [][/\ \A s \in Slots :
             (slotState'[s] # slotState[s] \/ slotCount'[s] # slotCount[s])
                 => s \notin idx
       /\ CycleCompletes =>
              (idx' = {OtherSlot(curIdx)} /\ curIdx' = OtherSlot(curIdx))]_vars

\* Two cycles have completed since pong was chosen at startup.
C28_Witness ==
    /\ ixPc = "sleep"
    /\ Live("pong")
    /\ slotState["ping"] = "ok"
    /\ slotCount["ping"] = 1 /\ slotCount["pong"] = 2 /\ dbDocs = 2

(***************************************************************************)
(* SpecIndexPages: one run of gsearch.IndexPages over a store of three     *)
(* urls, one of them of a blacklisted domain, with every combination of    *)
(* stored content, ranks and link rows.                                    *)
(***************************************************************************)
\* The rows of the query of IndexPages: it selects from x, the link rows
\* grouped by destination, joined with urls, contents and hosts.
PageRows ==
    {u \in {l[2] : l \in linkRow} :
        /\ urlRow[u].exists
        /\ urlRow[u].contentId # "none"
        /\ hostRow[UrlHost(u)].exists
        /\ u \in ipRank.url
        /\ UrlHost(u) \in ipRank.host}

\* db.Query(q): the rows, or an error, on which IndexPages returns.
IndexPagesQuery(ok) ==
    /\ ipPc = "start"
    /\ IF ok THEN ipRows' = PageRows /\ ipPc' = "rows"
       ELSE ipRows' = {} /\ ipPc' = "failed"
    /\ UNCHANGED <<ipRank, ipBatch, ipDocs, crVars>>

\* One pass of the loop over the rows, for the row of url u: a blacklisted
\* url is skipped; else the document is added to the batch, a full batch is
\* written (batchOk: index.Batch returns no error), and the loop breaks when
\* the context is done.
IndexPagesRow(u, batchOk, done) ==
    /\ ipPc = "rows"
    /\ u \in ipRows
    /\ ipRows' = ipRows \ {u}
    /\ IF IsBlacklisted(u) THEN
           /\ batchOk /\ ~done
           /\ UNCHANGED <<ipBatch, ipDocs, ipPc>>
       ELSE LET batch == ipBatch \cup {u} IN
           IF Cardinality(batch) >= BatchSize THEN
               IF batchOk
               THEN /\ ipDocs' = ipDocs \cup batch
                    /\ ipBatch' = {}
                    /\ ipPc' = IF done THEN "broke" ELSE "rows"
               ELSE /\ ~done
                    /\ ipBatch' = batch
                    /\ ipPc' = "failed"
                    /\ UNCHANGED ipDocs
           ELSE /\ batchOk
                /\ ipBatch' = batch
                /\ ipPc' = IF done THEN "broke" ELSE "rows"
                /\ UNCHANGED ipDocs
    /\ UNCHANGED <<ipRank, crVars>>

\* After the loop: what is left in the batch is written and IndexPages
\* returns.
IndexPagesLast(batchOk) ==
    /\ (ipPc = "rows" /\ ipRows = {}) \/ ipPc = "broke"
    /\ IF ipBatch = {} THEN
           /\ batchOk
           /\ ipPc' = IF ipPc = "broke" THEN "cancelled" ELSE "done"
           /\ UNCHANGED <<ipBatch, ipDocs>>
       ELSE IF batchOk THEN
           /\ ipDocs' = ipDocs \cup ipBatch
           /\ ipBatch' = {}
           /\ ipPc' = IF ipPc = "broke" THEN "cancelled" ELSE "done"
       ELSE
           /\ ipPc' = "failed"
           /\ UNCHANGED <<ipBatch, ipDocs>>
    /\ UNCHANGED <<ipRank, ipRows, crVars>>

IndexedUrls == {"u1", "u3", "ub"}

IndexedLinks == {<<"u1", "u3">>, <<"u3", "u1">>, <<"u1", "ub">>}

InitIndexPages ==
    /\ IdleIndex
    /\ IdleRobotsParse
    /\ IdleFetch
    /\ IdlePace
    /\ IdleConn
    /\ IdleLib
    /\ now = 3 * Day
    /\ nTicks = 0
    /\ \E withContent \in SUBSET IndexedUrls :
         urlRow = [u \in Urls |->
                     IF u \in withContent THEN Visited(2 * Day, "c1")
                     ELSE IF u \in IndexedUrls
                     THEN [NoRow EXCEPT !.exists = TRUE]
                     ELSE NoRow]
    /\ hostRow = [h \in Hosts |-> updateRobotsRulesInDbWithSuccess(NoHost, <<>>)]
    /\ linkRow \in SUBSET IndexedLinks
    /\ \A l \in linkRow : urlRow[l[1]].contentId # "none"
    /\ ipRank \in [url : SUBSET IndexedUrls, host : SUBSET Hosts]
    /\ ipPc = "start"
    /\ ipRows = {}
    /\ ipBatch = {}
    /\ ipDocs = {}
    /\ cfg = [dns |-> {"ip1"},
              urlChanCap |-> 0, shardCap |-> 0, resultsCap |-> 0,
              robots |-> {}, visits |-> {}]
    /\ crawlPc = "run"
    /\ crawlIdx = 0
    /\ drained = [i \in Visitors |-> <<>>]
    /\ seederPc = "query"
    /\ sdPending = {}
    /\ sdCur = "none"
    /\ seedCancelled = FALSE
    /\ robotsCache = [h \in Hosts |-> NoCache]
    /\ urlChan = <<>>
    /\ coordPc = "run"
    /\ seen = [u \in Urls |-> FALSE]
    /\ host2ip = [h \in Hosts |-> "unknown"]
    /\ inputUrls = [i \in Visitors |-> <<>>]
    /\ chClosed = [i \in Visitors |-> FALSE]
    /\ vPc = [i \in Visitors |-> "idle"]
    /\ vCur = [i \in Visitors |-> "none"]
    /\ vCancelled = [i \in Visitors |-> FALSE]
    /\ visitResults = <<>>
    /\ flusherPc = "run"
    /\ flCur = NoResult
    /\ cleanerPc = "exec"
    /\ sdLast = NoLast
    /\ hostFetch = [h \in Hosts |-> NoFetch]
    /\ fed = [u \in Urls |-> 0]
    /\ dispatched = [u \in Urls |-> 0]
    /\ droppedFull = {}
    /\ crashed = FALSE

NextIndexPages ==
    /\ UNCHANGED <<libVars, ixVars, rbVars, rgVars, paceVars, cnVars>>
    /\ \/ \E ok \in BOOLEAN : IndexPagesQuery(ok)
       \/ \E u \in Urls, batchOk \in BOOLEAN, done \in BOOLEAN :
              IndexPagesRow(u, batchOk, done)
       \/ \E batchOk \in BOOLEAN : IndexPagesLast(batchOk)

SpecIndexPages == InitIndexPages /\ [][NextIndexPages]_vars

(***************************************************************************)
(* Claims on the documents of a rebuilt index.                             *)
(***************************************************************************)
\* url u has stored content, a rank, and a host with a rank.
Ranked(u) ==
    /\ urlRow[u].exists
    /\ urlRow[u].contentId # "none"
    /\ u \in ipRank.url
    /\ UrlHost(u) \in ipRank.host

\* C24: when IndexPages has completed, the index holds a document for every
\* url that is not blacklisted and has stored content, a rank and a host with
\* a rank, whether or not a link points to it.
C24_RankedUrlsIndexed ==
    ipPc = "done" =>
        \A u \in Urls : (Ranked(u) /\ ~IsBlacklisted(u)) => u \in ipDocs

JsonErr(msg) == [kind |-> "json", err |-> msg, q |-> "none", page |-> 0]
JsonResults(q, page) == [kind |-> "json", err |-> "none", q |-> q, page |-> page]
JsonImage == [kind |-> "json", err |-> "none", q |-> "image", page |-> 0]
Text(t) == [kind |-> "text", err |-> t, q |-> "none", page |-> 0]
CR == [kind |-> "cr", err |-> "none", q |-> "none", page |-> 0]
LF == [kind |-> "lf", err |-> "none", q |-> "none", page |-> 0]

\* errorResponse: the marshalled {"err": msg} followed by '\r', '\n'.
errorResponse(msg) == <<JsonErr(msg), CR, LF>>

SearchAnyPage(q, page, ok) ==
    IF ~ok THEN [err |-> "search error", resp |-> JsonErr("none")]
    ELSE [err |-> "nil", resp |-> JsonResults(q, page)]

\* gsearch.Search: the page check, then the query on the index (ok: the
\* index answers without error).
Search(q, page, ok) ==
    IF page < 1 THEN [err |-> "Invalid page number", resp |-> JsonErr("none")]
    ELSE IF ~ok THEN [err |-> "search error", resp |-> JsonErr("none")]
    ELSE [err |-> "nil", resp |-> JsonResults(q, page)]

\* handleSearchRequest: req.Page = 1 before json.Unmarshal, so a line without
\* page leaves it 1; a line without q leaves Query empty.
handleSearchRequest(req, ok) ==
    LET page == IF req.pageGiven THEN req.page ELSE 1
        query == IF req.q = "absent" THEN "" ELSE req.q
        r == Search(query, page, ok)
    IN IF req.fields # "ok" THEN errorResponse("bad request")
       ELSE IF query = "" THEN errorResponse("no query")
       ELSE IF r.err # "nil" THEN errorResponse(r.err)
       ELSE <<r.resp>>

\* handleRandImgRequest, handleGetImgRequest: the row, or a database error.
handleImgRequest(req, ok) ==
    IF req.t = "getimg" /\ req.fields # "ok" THEN errorResponse("bad request")
    ELSE IF ~ok THEN errorResponse("Database error")
    ELSE <<JsonImage>>

\* handleConn: everything it writes to the connection before closing it.
handleConn(req, ok) ==
    LET type == IF req.t = "absent" THEN "search" ELSE req.t IN
    IF ~req.line THEN <<>>
    ELSE IF ~req.json THEN <<Text("bad request")>>
    ELSE IF type = "search" THEN handleSearchRequest(req, ok) \o <<LF>>
    ELSE IF type \in {"randimg", "getimg"}
    THEN handleImgRequest(req, ok) \o <<LF>>
    ELSE <<>>

\* The request lines of the model: nothing sent, a line that is not JSON (or
\* whose t is not a string), and JSON objects with and without t, q and
\* page, whose q or page may have the wrong type.
Requests ==
    {NoRequest,
     [NoRequest EXCEPT !.line = TRUE]}
    \cup [line : {TRUE}, json : {TRUE}, fields : {"ok", "mistyped"},
          t : {"absent", "search", "randimg", "getimg", "bogus"},
          q : {"absent", "", "hello"},
          pageGiven : BOOLEAN, page : -1..2]

\* listener.Accept() returns a connection; go handleConn(conn).  The model
\* has one connection open at a time.
Accept(req) ==
    /\ ~panicked
    /\ srPc = "listening"
    /\ listener = "open"
    /\ connPc \in {"none", "closed"}
    /\ nConns < MaxConns
    /\ req.pageGiven \/ req.page = 1
    /\ connPc' = "accepted"
    /\ connReq' = req
    /\ connOut' = <<>>
    /\ nConns' = nConns + 1
    /\ connEarly' = ~signalled
    /\ UNCHANGED <<listener, procExited, ixVars>>

\* handleConn runs to its end: the response is written and the deferred
\* conn.Close() runs.
HandleConn(ok) ==
    /\ ~panicked
    /\ ~procExited
    /\ connPc = "accepted"
    /\ connOut' = handleConn(connReq, ok)
    /\ connPc' = "closed"
    /\ UNCHANGED <<connReq, nConns, listener, procExited, connEarly, ixVars>>

InitConn ==
    /\ slotState = [s \in Slots |-> IF s = "ping" THEN "ok" ELSE "absent"]
    /\ slotCount = [s \in Slots |-> 0]
    /\ dbDocs = 0
    /\ idx = {"ping"}
    /\ curIdx = "ping"
    /\ loadIndexOnce = "done"
    /\ loader = "search"
    /\ ixPc = "start"
    /\ ixCancelled = FALSE
    /\ newIdx = "nil"
    /\ buildFailed = FALSE
    /\ srPc = "listening"
    /\ signalled = FALSE
    /\ panicked = FALSE
    /\ aliasPopulated = TRUE
    /\ answeredFrom = {}
    /\ nQueries = 0
    /\ IdleConn
    /\ IdleLib
    /\ IdleRobotsParse
    /\ IdleFetch
    /\ IdlePace
    /\ IdleIndexPages
    /\ IdleCrawl

NextConn ==
    /\ UNCHANGED <<libVars, rbVars, rgVars, paceVars, ipVars, crVars>>
    /\ \/ \E req \in Requests : Accept(req)
       \/ \E ok \in BOOLEAN : HandleConn(ok)

SpecConn == InitConn /\ [][NextConn]_vars

(***************************************************************************)
(* Claims on the responses of the search daemon.                           *)
(***************************************************************************)
\* out is one JSON value followed by a line end, and nothing else but line
\* ends.
OneJsonLine(out) ==
    /\ Len(out) >= 2
    /\ out[1].kind = "json"
    /\ \A k \in 2..Len(out) : out[k].kind \in {"cr", "lf"}
    /\ out[Len(out)].kind = "lf"

\* C29: when the connection of a client that sent a request line is closed,
\* one newline-terminated JSON response has been written to it, whether the
\* line was a valid request, malformed JSON or a request of unknown type;
\* and the daemon has not failed.
C29_OneJsonResponse ==
    /\ ~panicked
    /\ (connPc = "closed" /\ connReq.line) => OneJsonLine(connOut)

\* The connection carried a search request that is well formed JSON.
SearchAnswered ==
    /\ connPc = "closed"
    /\ connReq.line /\ connReq.json /\ connReq.fields = "ok"
    /\ connReq.t \in {"absent", "search"}

\* C30: a search request with an empty query is answered {"err":"no query"},
\* one with a page below 1 is answered with an error, neither gets a result
\* list, and a request without page is answered as page 1.
C30_EmptyQueryAndPageRejected ==
    SearchAnswered =>
        /\ connReq.q \in {"absent", ""} => connOut[1] = JsonErr("no query")
        /\ (connReq.pageGiven /\ connReq.page < 1)
               => (connOut[1].kind = "json" /\ connOut[1].err # "none")
        /\ (~connReq.pageGiven /\ connReq.q = "hello")
               => connOut[1] \in {JsonResults("hello", 1),
                                  JsonErr("search error")}

\* A query for page 0 was answered with the page error, on the second
\* connection.
C30_Witness ==
    /\ SearchAnswered
    /\ nConns = 2
    /\ connReq.q = "hello"
    /\ connReq.pageGiven /\ connReq.page = 0
    /\ connOut = errorResponse("Invalid page number") \o <<LF>>

(***************************************************************************)
(* SpecStop: the search daemon, run alone, from listening to the exit of   *)
(* the process: connections are accepted and handled as in SpecConn while  *)
(* main receives the signal, the goroutine of search() closes the          *)
(* listener, search() returns and main returns from wg.Wait().             *)
(***************************************************************************)
\* search(): the goroutine has received from done and set closing = true.
SearchClosing ==
    /\ ~panicked
    /\ srPc = "listening"
    /\ signalled
    /\ listener = "open"
    /\ listener' = "closing"
    /\ UNCHANGED <<connPc, connReq, connOut, nConns, procExited, connEarly,
                   ixVars>>

\* search(): the goroutine runs listener.Close().
ListenerClose ==
    /\ listener = "closing"
    /\ listener' = "closed"
    /\ UNCHANGED <<connPc, connReq, connOut, nConns, procExited, connEarly,
                   ixVars>>

\* search(): Accept returns a connection while closing is already true; the
\* loop breaks, no handleConn is started for the connection and nothing
\* closes it.
AcceptWhileClosing(req) ==
    /\ ~panicked
    /\ srPc = "listening"
    /\ listener = "closing"
    /\ connPc \in {"none", "closed"}
    /\ nConns < MaxConns
    /\ req.pageGiven \/ req.page = 1
    /\ connPc' = "dropped"
    /\ connReq' = req
    /\ connOut' = <<>>
    /\ nConns' = nConns + 1
    /\ connEarly' = FALSE
    /\ srPc' = "exited"
    /\ UNCHANGED <<listener, procExited>>
    /\ UNCHANGED <<slotState, slotCount, dbDocs, idx, curIdx, loadIndexOnce,
                   loader, ixPc, ixCancelled, newIdx, buildFailed, signalled,
                   panicked, aliasPopulated, ixHist>>

\* search(): Accept fails on the closed listener, closing is true, the loop
\* breaks and search returns (wg.Done).
SearchBreak ==
    /\ listener = "closed"
    /\ SearchExit
    /\ UNCHANGED cnVars

\* main: wg.Wait() returns once search() has returned; main returns and the
\* process exits with the goroutines that are still running.
MainExit ==
    /\ srPc = "exited"
    /\ ~procExited
    /\ procExited' = TRUE
    /\ UNCHANGED <<connPc, connReq, connOut, nConns, listener, connEarly,
                   ixVars>>

NextStop ==
    /\ UNCHANGED <<libVars, rbVars, rgVars, paceVars, ipVars, crVars>>
    /\ \/ \E req \in Requests : Accept(req)
       \/ \E ok \in BOOLEAN : HandleConn(ok)
       \/ Signal /\ UNCHANGED cnVars
       \/ SearchClosing
       \/ ListenerClose
       \/ \E req \in Requests : AcceptWhileClosing(req)
       \/ SearchBreak
       \/ MainExit

SpecStop == InitConn /\ [][NextStop]_vars

\* C31: on the signal the listener is closed (Accept takes no connection
\* from a listener that is closing or closed), and when the process has
\* exited, every connection that was accepted before the signal has been
\* answered and closed by its handleConn.
C31_AcceptedConnectionsDrain ==
    (procExited /\ connEarly) => (listener = "closed" /\ connPc = "closed")

(***************************************************************************)
(* SpecRank: the rank command on a drawn set of links.  float64 values are *)
(* fixed-point numbers with six decimals (One is 1.0); quotients are       *)
(* truncated, which moves a rank by a few units of the last decimal.       *)
(***************************************************************************)
One == 1000000
beta == 850000
epsilon == 100

NodeIds == 1..MaxNodes

\* a * b on fixed-point numbers, for an a of two decimals (beta), so that
\* the product stays within 32 bits.
Mul(a, b) == ((a \div 10000) * b) \div 100
Abs(a) == IF a < 0 THEN 0 - a ELSE a

RECURSIVE SumOver(_, _)
SumOver(f, S) ==
    IF S = {} THEN 0
    ELSE LET x == CHOOSE y \in S : TRUE IN f[x] + SumOver(f, S \ {x})

\* pagerank: nodes, the set of all nodes.
NodesOf(links) ==
    {links[k][1] : k \in DOMAIN links} \cup {links[k][2] : k \in DOMAIN links}

\* pagerank: outDegree counts every link of the slice, by its source.
outDegree(links) ==
    [n \in NodesOf(links) |->
        Cardinality({k \in DOMAIN links : links[k][1] = n})]

\* pagerank, one iteration: the links that are not self-links hand
\* beta * (ranks[src] / outDegree[src]) to their destination, and the leak is
\* spread over all nodes.
PagerankIteration(links, ranks) ==
    LET nodes == NodesOf(links)
        share == [k \in DOMAIN links |->
                     IF links[k][1] = links[k][2] THEN 0
                     ELSE Mul(beta, ranks[links[k][1]]
                                      \div outDegree(links)[links[k][1]])]
        given == [n \in nodes |->
                     SumOver(share, {k \in DOMAIN links : links[k][2] = n})]
        leak == (One - SumOver(given, nodes)) \div Cardinality(nodes)
    IN [n \in nodes |-> given[n] + leak]

\* pagerank, the loop: iterate until the ranks move by no more than epsilon
\* (newRanks = newRanks makes TLC compute the map once per iteration).
RECURSIVE PagerankLoop(_, _)
PagerankLoop(links, ranks) ==
    LET newRanks == PagerankIteration(links, ranks)
        diff == SumOver([n \in DOMAIN ranks |-> Abs(ranks[n] - newRanks[n])],
                        DOMAIN ranks)
    IN IF newRanks = newRanks /\ diff > epsilon
       THEN PagerankLoop(links, newRanks)
       ELSE newRanks

\* pagerank, the end: the highest rank becomes 1.0 (to three decimals).
Normalized(ranks) ==
    LET max == CHOOSE m \in {ranks[n] : n \in DOMAIN ranks} :
                   \A n \in DOMAIN ranks : ranks[n] <= m
    IN [n \in DOMAIN ranks |-> ((ranks[n] * 1000) \div max) * 1000]

pagerank(links) ==
    IF Len(links) = 0 THEN <<>>
    ELSE LET nodes == NodesOf(links)
             start == [n \in nodes |-> One \div Cardinality(nodes)]
         IN Normalized(PagerankLoop(links, start))

\* main: url2host, the hostname of each url of the urls table.
url2host == [n \in NodeIds |-> IF n <= 2 THEN "h1" ELSE "h2"]

\* getHostRanks: every url link becomes a link between the hosts of its ends
\* (the hostnames stand for the ids the code gives them).
getHostRanks(urlLinks) ==
    pagerank([k \in DOMAIN urlLinks |->
                 <<url2host[urlLinks[k][1]], url2host[urlLinks[k][2]]>>])

\* main of the rank command: urlRanks := pagerank(links), then
\* hostRanks := getHostRanks(links, url2host).
RankMain ==
    /\ prPc = "start"
    /\ urlRanks' = pagerank(prLinks)
    /\ hostRanks' = getHostRanks(prLinks)
    /\ prPc' = "done"
    /\ UNCHANGED prLinks

\* The links of the store: the links table has one row per (src, dst).
LinkLists ==
    {l \in SeqsUpTo(NodeIds \X NodeIds, MaxLinks) :
        \A j, k \in DOMAIN l : j < k => l[j] # l[k]}

InitRank ==
    /\ prLinks \in LinkLists
    /\ prPc = "start"
    /\ urlRanks = <<>>
    /\ hostRanks = <<>>
    /\ IdleGemtext
    /\ IdleUrlStrings
    /\ IdleClean
    /\ IdleIndex
    /\ IdleRobotsParse
    /\ IdleFetch
    /\ IdlePace
    /\ IdleIndexPages
    /\ IdleConn
    /\ IdleCrawl

NextRank ==
    /\ UNCHANGED <<gtVars, usVars, clVars>>
    /\ UNCHANGED <<ixVars, rbVars, rgVars, paceVars, ipVars, cnVars, crVars>>
    /\ RankMain

SpecRank == InitRank /\ [][NextRank]_vars

\* links without its self-links.
NoSelfLinks(links) == SelectSeq(links, LAMBDA l : l[1] # l[2])

\* C32: the self-links of a graph change no rank: when every node of a
\* self-link is the end of another link as well, the url ranks are those
\* of the links without the self-links, and so are the host ranks, where a
\* link between two urls of one host is a self-link.
C32_SelfEdgesIgnored ==
    LET hostLinks == [k \in DOMAIN prLinks |->
                         <<url2host[prLinks[k][1]], url2host[prLinks[k][2]]>>]
    IN prPc = "done" =>
        /\ NodesOf(NoSelfLinks(prLinks)) = NodesOf(prLinks)
               => urlRanks = pagerank(NoSelfLinks(prLinks))
        /\ NodesOf(NoSelfLinks(hostLinks)) = NodesOf(hostLinks)
               => hostRanks = pagerank(NoSelfLinks(hostLinks))

(***************************************************************************)
(* SpecGemtext: gparse.ParseGemtext on a drawn page.  A line is a sequence *)
(* of characters.  The model keeps what decides result.Title: the          *)
(* headings, the first line of text and the texts of the links; it leaves  *)
(* out result.Text.                                                        *)
(***************************************************************************)
maxTitleLength == 72

\* The backquote character.
BQ == "backquote"

\* unicode.IsLetter(r) || unicode.IsDigit(r), on the characters of the model.
IsAlphanumeric(c) == c \in {"a", "b", "c", "t", "u", "1"}

\* isMostlyAlphanumeric: float64(n)/float64(len(s)) > 0.6.
isMostlyAlphanumeric(s) ==
    /\ s # <<>>
    /\ 10 * Cardinality({k \in DOMAIN s : IsAlphanumeric(s[k])}) > 6 * Len(s)

\* strings.TrimRight(line, " ") and the " *" of the regular expressions.
RECURSIVE TrimRightBlanks(_)
TrimRightBlanks(s) ==
    IF s # <<>> /\ s[Len(s)] = " "
    THEN TrimRightBlanks(SubSeq(s, 1, Len(s) - 1)) ELSE s

RECURSIVE TrimLeftBlanks(_)
TrimLeftBlanks(s) ==
    IF s # <<>> /\ Head(s) = " " THEN TrimLeftBlanks(Tail(s)) ELSE s

\* The number of characters c at the start of s.
RECURSIVE Leading(_, _)
Leading(s, c) ==
    IF s # <<>> /\ Head(s) = c THEN 1 + Leading(Tail(s), c) ELSE 0

\* headingRe "^(#+) *(?P<heading>.+) *$" on a line without blanks at its
\* end: the hashes, blanks, and a text of at least one character; a line of
\* hashes only gives its last hash as the text.  Level 0 when there is no match.
MatchHeading(line) ==
    LET h == Leading(line, "#")
        text == TrimLeftBlanks(SubSeq(line, h + 1, Len(line)))
    IN IF h > 0 /\ text # <<>> THEN [Level |-> h, Text |-> text]
       ELSE IF h >= 2 /\ Len(line) = h THEN [Level |-> h - 1, Text |-> <<"#">>]
       ELSE [Level |-> 0, Text |-> <<>>]

\* linkRe "^=> *(?P<linkurl>.*?)(?: +(?P<linktext>.+))? *$": the text of the
\* link is what follows the url and its blanks.
MatchLinkText(line) ==
    LET rest == TrimLeftBlanks(SubSeq(line, 3, Len(line)))
        n == CHOOSE k \in 0..Len(rest) :
                 /\ \A j \in 1..k : rest[j] # " "
                 /\ k = Len(rest) \/ rest[k + 1] = " "
    IN TrimLeftBlanks(SubSeq(rest, n + 1, Len(rest)))

\* ParseGemtext, one iteration of the loop over the lines.
ParseGemtextLine ==
    /\ ~gtDone
    /\ gtRead < Len(gtLines)
    /\ gtRead' = gtRead + 1
    /\ LET line == TrimRightBlanks(gtLines[gtRead + 1])
           heading == MatchHeading(line)
       IN IF HasPrefix(line, <<BQ, BQ, BQ>>) THEN
               /\ inPre' = ~inPre
               /\ UNCHANGED <<firstLine, result>>
          ELSE IF inPre \/ (line # <<>> /\ Head(line) = ">") THEN
               UNCHANGED <<inPre, firstLine, result>>
          ELSE IF heading.Level > 0 THEN
               /\ result' = [result EXCEPT
                                !.Headings = Append(@, heading)]
               /\ UNCHANGED <<inPre, firstLine>>
          ELSE IF HasPrefix(line, <<"=", ">">>) THEN
               /\ result' = [result EXCEPT
                                !.Links = Append(@, MatchLinkText(line))]
               /\ UNCHANGED <<inPre, firstLine>>
          ELSE
               /\ firstLine' =
                      IF line # <<>> /\ firstLine = <<>>
                                     /\ isMostlyAlphanumeric(line)
                      THEN line ELSE firstLine
               /\ UNCHANGED <<inPre, result>>
    /\ UNCHANGED <<gtLines, gtDone>>

\* ParseGemtext, the loop over result.Headings: Title is set to each
\* heading's text in turn, and the loop breaks at a heading of level 1 whose
\* text is mostly alphanumeric.
RECURSIVE TitleOfHeadings(_, _)
TitleOfHeadings(headings, title) ==
    IF headings = <<>> THEN title
    ELSE IF Head(headings).Level = 1
            /\ isMostlyAlphanumeric(Head(headings).Text)
    THEN Head(headings).Text
    ELSE TitleOfHeadings(Tail(headings), Head(headings).Text)

\* shortenTitleIfNeeded
shortenTitleIfNeeded(title) ==
    LET cut == SubSeq(title, 1, maxTitleLength)
        blanks == {k \in DOMAIN cut : cut[k] = " "}
        last == IF blanks = {} THEN 0
               ELSE CHOOSE k \in blanks : \A j \in blanks : j <= k
    IN IF Len(title) <= maxTitleLength THEN title
       ELSE IF cut[Len(cut)] = " " THEN TrimSpace(cut) \o <<".", ".", ".">>
       ELSE IF last > 1 /\ last > Len(cut) - 9
       THEN SubSeq(cut, 1, last - 1) \o <<".", ".", ".">>
       ELSE cut \o <<".", ".", ".">>

\* ParseGemtext after the loop over the lines: the title from the headings,
\* else the first line, else the first link text that is mostly
\* alphanumeric; trimmed and shortened.
ParseGemtextTitle ==
    /\ ~gtDone
    /\ gtRead = Len(gtLines)
    /\ LET fromHeadings == TitleOfHeadings(result.Headings, <<>>)
           fromLine == IF fromHeadings = <<>> THEN firstLine ELSE fromHeadings
           texts == {k \in DOMAIN result.Links :
                        isMostlyAlphanumeric(result.Links[k])}
           fromLinks ==
               IF fromLine # <<>> \/ texts = {} THEN fromLine
               ELSE result.Links[CHOOSE k \in texts : \A j \in texts : k <= j]
       IN result' = [result EXCEPT
                        !.Title = shortenTitleIfNeeded(TrimSpace(fromLinks))]
    /\ gtDone' = TRUE
    /\ UNCHANGED <<gtLines, gtRead, inPre, firstLine>>

\* The lines of the model: headings of level 1 to 3 whose text is or is not
\* mostly alphanumeric, a line of text, a quote, a toggle of preformatted
\* text and a link.
GemLines ==
    {<<"#", " ", "a", "b">>,
     <<"#", " ", "-", "-", "c">>,
     <<"#", "#", " ", "c", " ">>,
     <<"#", "#", "#", "-">>,
     <<"a", " ", "b">>,
     <<">", "#", " ", "a">>,
     <<BQ, BQ, BQ>>,
     <<"=", ">", " ", "u", " ", "t">>}

InitGemtext ==
    /\ gtLines \in SeqsUpTo(GemLines, MaxGemLines)
    /\ gtRead = 0
    /\ inPre = FALSE
    /\ firstLine = <<>>
    /\ result = [Headings |-> <<>>, Links |-> <<>>, Title |-> <<>>]
    /\ gtDone = FALSE
    /\ IdleRank
    /\ IdleUrlStrings
    /\ IdleClean
    /\ IdleIndex
    /\ IdleRobotsParse
    /\ IdleFetch
    /\ IdlePace
    /\ IdleIndexPages
    /\ IdleConn
    /\ IdleCrawl

NextGemtext ==
    /\ UNCHANGED <<prVars, usVars, clVars>>
    /\ UNCHANGED <<ixVars, rbVars, rgVars, paceVars, ipVars, cnVars, crVars>>
    /\ \/ ParseGemtextLine
       \/ ParseGemtextTitle

SpecGemtext == InitGemtext /\ [][NextGemtext]_vars

\* The headings of level 1 whose text is mostly alphanumeric.
TitleHeadings ==
    {k \in DOMAIN result.Headings :
        /\ result.Headings[k].Level = 1
        /\ isMostlyAlphanumeric(result.Headings[k].Text)}

\* C33: for a page with at least one heading, the title is the text of the
\* first heading of level 1 that is mostly alphanumeric, and the text of
\* the first heading of the page when there is no such heading.
C33_TitleFromHeadings ==
    (gtDone /\ result.Headings # <<>>) =>
        result.Title =
            IF TitleHeadings # {}
            THEN result.Headings[CHOOSE k \in TitleHeadings :
                                    \A j \in TitleHeadings : k <= j].Text
            ELSE result.Headings[1].Text

(***************************************************************************)
(* SpecUrlStrings: the strings that reach the url column of the urls       *)
(* table, from the add-seed command of gpctl and from the links of the     *)
(* pages the crawler stores.  A url string is held as its scheme, host,    *)
(* port and path as they are spelled.                                      *)
(***************************************************************************)
UrlStrings ==
    [scheme : {"gemini", "GEMINI"}, host : {"h1", "H1"},
     port : {"", ":1965"}, path : {"", "/", "/a", "//a"}]

\* strings.ToLower on the schemes and hosts of the model.
LowerCase(str) ==
    CASE str = "GEMINI" -> "gemini"
      [] str = "H1" -> "h1"
      [] OTHER -> str

\* url.Parse: the scheme is lowercased, the rest is kept as spelled.
urlParse(ustr) == [ustr EXCEPT !.scheme = LowerCase(@)]

\* gparse.NormalizeUrl: the default port is dropped, purell lowercases the
\* host and removes duplicate slashes, and an empty path becomes "/".
NormalizeUrl(u) ==
    [scheme |-> LowerCase(u.scheme),
     host |-> LowerCase(u.host),
     port |-> IF u.scheme = "gemini" /\ u.port = ":1965" THEN "" ELSE u.port,
     path |-> CASE u.path = "" -> "/"
                [] u.path = "//a" -> "/a"
                [] OTHER -> u.path]

\* handleAddSeedCommand, for one argument: the url is parsed and normalized;
\* the normalized url gives the row its hostname, and the row is inserted
\* with the argument ustr as its url (on conflict do nothing).
handleAddSeedCommand(ustr) ==
    /\ Cardinality(urlsTable \cup {ustr}) <= MaxUrlRows
    /\ urlParse(ustr).scheme = "gemini"
    /\ urlsTable' = urlsTable \cup {ustr}

\* ParseGemtext on a link line, then updateDbSuccessfulVisit: the link's url
\* is parsed, normalized and written back as a string (link.Url), which is
\* the string the flusher inserts into urls.
StoreLinkUrl(raw) ==
    LET link == NormalizeUrl(urlParse(raw)) IN
    /\ Cardinality(urlsTable \cup {link}) <= MaxUrlRows
    /\ link.scheme = "gemini"
    /\ urlsTable' = urlsTable \cup {link}

InitUrlStrings ==
    /\ urlsTable = {}
    /\ IdleRank
    /\ IdleGemtext
    /\ IdleClean
    /\ IdleIndex
    /\ IdleRobotsParse
    /\ IdleFetch
    /\ IdlePace
    /\ IdleIndexPages
    /\ IdleConn
    /\ IdleCrawl

NextUrlStrings ==
    /\ UNCHANGED <<prVars, gtVars, clVars>>
    /\ UNCHANGED <<ixVars, rbVars, rgVars, paceVars, ipVars, cnVars, crVars>>
    /\ \/ \E ustr \in UrlStrings : handleAddSeedCommand(ustr)
       \/ \E raw \in UrlStrings : StoreLinkUrl(raw)

SpecUrlStrings == InitUrlStrings /\ [][NextUrlStrings]_vars

\* C34: every url string of the urls table is in normalized form, and no
\* two rows hold spellings of the same url.
C34_StoredUrlsNormalized ==
    /\ \A u \in urlsTable : NormalizeUrl(urlParse(u)) = u
    /\ \A u, v \in urlsTable :
           NormalizeUrl(urlParse(u)) = NormalizeUrl(urlParse(v)) => u = v

(***************************************************************************)
(* SpecResolve: the coordinator with a host whose lookup can fail.  The    *)
(* seeder has forwarded three due urls, two of them of host h1, and        *)
(* sleeps; the coordinator, the visitors and the flusher run.              *)
(***************************************************************************)
ResolveRows == {"u1", "u2", "u3"}

InitResolve ==
    /\ IdleIndex
    /\ IdleRobotsParse
    /\ IdleFetch
    /\ IdlePace
    /\ IdleIndexPages
    /\ IdleConn
    /\ IdleLib
    /\ now = 1
    /\ nTicks = 0
    /\ linkRow = {}
    /\ urlRow = [u \in Urls |->
                   IF u \in ResolveRows THEN [NoRow EXCEPT !.exists = TRUE]
                   ELSE NoRow]
    /\ hostRow = [h \in Hosts |->
                    IF h \in {UrlHost(u) : u \in ResolveRows}
                    THEN updateRobotsRulesInDbWithSuccess(NoHost, <<>>)
                    ELSE NoHost]
    /\ cfg = [dns |-> {"ip1", ""},
              urlChanCap |-> 3, shardCap |-> 2, resultsCap |-> 1,
              robots |-> {}, visits |-> {"ok"}]
    /\ crawlPc = "run"
    /\ crawlIdx = 0
    /\ drained = [i \in Visitors |-> <<>>]
    /\ seederPc = "sleep"
    /\ sdPending = {}
    /\ sdCur = "none"
    /\ seedCancelled = FALSE
    /\ robotsCache = [h \in Hosts |-> NoCache]
    /\ urlChan \in {<<"u1", "u2", "u3">>, <<"u3", "u1", "u2">>}
    /\ coordPc = "run"
    /\ seen = [u \in Urls |-> FALSE]
    /\ host2ip = [h \in Hosts |-> "unknown"]
    /\ inputUrls = [i \in Visitors |-> <<>>]
    /\ chClosed = [i \in Visitors |-> FALSE]
    /\ vPc = [i \in Visitors |-> "idle"]
    /\ vCur = [i \in Visitors |-> "none"]
    /\ vCancelled = [i \in Visitors |-> FALSE]
    /\ visitResults = <<>>
    /\ flusherPc = "run"
    /\ flCur = NoResult
    /\ cleanerPc = "exec"
    /\ sdLast = NoLast
    /\ hostFetch = [h \in Hosts |-> NoFetch]
    /\ fed = [u \in Urls |-> 0]
    /\ dispatched = [u \in Urls |-> 0]
    /\ droppedFull = {}
    /\ crashed = FALSE

NextResolve ==
    /\ UNCHANGED <<libVars, ixVars, rbVars, rgVars, paceVars, ipVars, cnVars>>
    /\ \/ \E answer \in {"ip1", "ip2", ""} : CoordinatorReceive(answer, FALSE)
       \/ \E i \in Visitors : VisitorTake(i)
       \/ \E i \in Visitors : VisitorFetch(i)
       \/ \E i \in Visitors, kind \in VisitKinds : VisitorSend(i, kind)
       \/ FlusherApply

SpecResolve == InitResolve /\ [][NextResolve]_vars

\* C35: when the lookup of a host has failed, the failure is cached and no
\* url of that host, the first or a later one, is put on a visitor queue.
C35_UnresolvedHostDropped ==
    \A u \in Urls :
        host2ip[UrlHost(u)] = "" =>
            /\ dispatched[u] = 0
            /\ \A i \in Visitors : \A k \in DOMAIN inputUrls[i] :
                   inputUrls[i][k] # u

(***************************************************************************)
(* Claims on the shutdown of the crawler (SpecCrawl).                      *)
(***************************************************************************)
\* Visitor i takes a url from its queue in this step.
TakesUrl(i) == vPc[i] = "idle" /\ vPc'[i] = "fetch"

\* C36: once crawl() has begun to drain the queues, no visitor takes a url
\* from its queue, so that the drained state holds every url that was
\* dispatched and not fetched.
C36_DrainAfterVisitorsStop ==
    [][(crawlPc \in {"drain", "returned"})
           => (\A i \in Visitors : ~TakesUrl(i))]_vars

(***************************************************************************)
(* Claims on failed rebuilds and on the start of the daemons (SpecIndex).  *)
(***************************************************************************)
\* indexDb returns (or panics) in this step.
RebuildEnds == ixPc = "build" /\ (ixPc' # "build" \/ panicked')

\* C37: a rebuilt index is swapped into the alias only if the rebuild ran to
\* completion: when it was cancelled or the store query or a batch write
\* failed, the alias and curIdx stay as they were, and a failure is not
\* ignored.
C37_SwapOnlyAfterCompleteRebuild ==
    [][RebuildEnds =>
          /\ (ixCancelled \/ buildFailed) => (idx' = idx /\ curIdx' = curIdx)
          /\ (buildFailed /\ ~ixCancelled) => panicked'
          /\ curIdx' # curIdx => slotCount[newIdx] = dbDocs]_vars

ContentIds == {"c1", "c2"}

CleanUrls == {"u1", "u2"}

\* The rows of contents that no committed row of urls references.
Dangling(rows, refs) == {c \in rows : \A u \in CleanUrls : refs[u] # c}

\* updateDbSuccessfulVisit: tx.QueryRow(insert into contents ... on conflict
\* (hash) do update ... returning id).  An existing row is locked by the
\* transaction; a new row is not visible to others before the commit.  The
\* statement waits while the row is deleted by a running statement.
UpsertContents(u, c) ==
    /\ clPc # "panicked"
    /\ txPc = "idle"
    /\ c \notin clDeleted
    /\ txPc' = "upserted"
    /\ txUrl' = u
    /\ txContentId' = c
    /\ UNCHANGED <<contentsRows, urlContentId, clPc, clSnapshot, clDeleted>>

\* updateDbSuccessfulVisit: tx.QueryRow(update urls set content_id = $1 ...
\* where url = $6); the links of the page follow in the same transaction.
UpdateUrlRow ==
    /\ clPc # "panicked"
    /\ txPc = "upserted"
    /\ txPc' = "updated"
    /\ UNCHANGED <<contentsRows, urlContentId, txUrl, txContentId, clPc,
                   clSnapshot, clDeleted>>

\* updateDbSuccessfulVisit: tx.Commit().
CommitVisit ==
    /\ clPc # "panicked"
    /\ txPc = "updated"
    /\ contentsRows' = contentsRows \cup {txContentId}
    /\ urlContentId' = [urlContentId EXCEPT ![txUrl] = txContentId]
    /\ txPc' = "idle"
    /\ txUrl' = ""
    /\ txContentId' = ""
    /\ UNCHANGED <<clPc, clSnapshot, clDeleted>>

\* cleaner: Db.ExecContext(delete from contents c where not exists (select 1
\* from urls where content_id=c.id)) starts; it selects the rows that are
\* dangling in what is committed now.
CleanerExec ==
    /\ clPc = "loop"
    /\ clPc' = "exec"
    /\ clSnapshot' = Dangling(contentsRows, urlContentId)
    /\ clDeleted' = {}
    /\ UNCHANGED <<contentsRows, urlContentId, txPc, txUrl, txContentId>>

\* The row c is locked by the running success transaction.
LockedByVisit(c) == txPc # "idle" /\ txContentId = c /\ c \in contentsRows

\* cleaner: the delete statement handles one selected row.  It waits while
\* the transaction holds the row.  A row that a committed url references by
\* now cannot be deleted: the statement fails and utils.PanicOnErr(err)
\* panics.
CleanerDeleteRow(c) ==
    /\ clPc = "exec"
    /\ c \in clSnapshot
    /\ ~LockedByVisit(c)
    /\ IF c \in Dangling(contentsRows, urlContentId)
         THEN /\ clDeleted' = clDeleted \cup {c}
              /\ clSnapshot' = clSnapshot \ {c}
              /\ clPc' = clPc
         ELSE /\ clDeleted' = {}
              /\ clSnapshot' = {}
              /\ clPc' = "panicked"
    /\ UNCHANGED <<contentsRows, urlContentId, txPc, txUrl, txContentId>>

\* cleaner: Db.ExecContext returns without error; the cleaner logs the count
\* and sleeps.
CleanerExecReturns ==
    /\ clPc = "exec"
    /\ clSnapshot = {}
    /\ contentsRows' = contentsRows \ clDeleted
    /\ clDeleted' = {}
    /\ clPc' = "sleep"
    /\ UNCHANGED <<urlContentId, txPc, txUrl, txContentId, clSnapshot>>

\* cleaner: case <-time.After(15 * time.Minute).
CleanerSleepOver ==
    /\ clPc = "sleep"
    /\ clPc' = "loop"
    /\ UNCHANGED <<contentsRows, urlContentId, txPc, txUrl, txContentId,
                   clSnapshot, clDeleted>>

InitClean ==
    /\ contentsRows \in SUBSET ContentIds
    /\ urlContentId \in [CleanUrls -> contentsRows \cup {"null"}]
    /\ txPc = "idle"
    /\ txUrl = ""
    /\ txContentId = ""
    /\ clPc = "loop"
    /\ clSnapshot = {}
    /\ clDeleted = {}
    /\ IdleRank
    /\ IdleGemtext
    /\ IdleUrlStrings
    /\ IdleIndex
    /\ IdleRobotsParse
    /\ IdleFetch
    /\ IdlePace
    /\ IdleIndexPages
    /\ IdleConn
    /\ IdleCrawl

NextClean ==
    /\ UNCHANGED <<prVars, gtVars, usVars>>
    /\ UNCHANGED <<ixVars, rbVars, rgVars, paceVars, ipVars, cnVars, crVars>>
    /\ \/ \E u \in CleanUrls, c \in ContentIds : UpsertContents(u, c)
       \/ UpdateUrlRow
       \/ CommitVisit
       \/ CleanerExec
       \/ \E c \in clSnapshot : CleanerDeleteRow(c)
       \/ CleanerExecReturns
       \/ CleanerSleepOver

SpecClean == InitClean /\ [][NextClean]_vars

\* C39: the cleaner deletes only rows of contents that no url references; no
\* url ever references a row that is gone, whatever the interleaving with
\* the success transaction, and the cleaner's statement never fails.
C39_CleanerSafeWithFlusher ==
    /\ clDeleted \subseteq Dangling(contentsRows, urlContentId)
    /\ \A u \in CleanUrls :
          urlContentId[u] # "null" => urlContentId[u] \in contentsRows
    /\ clPc # "panicked"

(***************************************************************************)
(* Claims on the results queue (SpecCrawl).                                *)
(***************************************************************************)
\* C40: no visit result is discarded: the flusher is the only reader of
\* visitResults, so a result that is in the queue once the flusher has
\* exited is never applied to the store.  The flusher does not exit while a
\* result is queued, and none is queued after it has exited.
C40_NoResultDiscarded ==
    flusherPc = "exited" => visitResults = <<>>

=============================================================================
